---------------------------- MODULE Spec2Model ----------------------------
(***************************************************************************)
(* A model of redis-lite (golang): the RESP codec (resp/reader.go,         *)
(* resp/writer.go), the command handlers over the in-memory cache          *)
(* (store/handlers.go, store/db.go), the append-only file                  *)
(* (persistence/aof.go) and the connection loop (server/server.go).        *)
(*                                                                         *)
(* A Go string or []byte is a sequence of one-character strings; indices   *)
(* into a buffer are 0-based as in the source, so buf[i] of the source is  *)
(* buf[i + 1] here.                                                        *)
(***************************************************************************)
EXTENDS Integers, Sequences, FiniteSets, TLC

VARIABLES
    \* ---- the server ----
    phase,      \* "boot" before NewAof has run, "serving" after, "dead" after log.Fatalf or a panic
    aofFile,    \* the bytes of the append-only file
    mu,         \* Aof.mu: "free", or the goroutine that holds it
    cache,      \* store.cache: a function from the keys present to their RespValue
    rw,         \* store.cacheLock: [writer |-> "none" or a goroutine, readers |-> set of goroutines]
    pc,         \* position of each connection goroutine in handleConnection
    cmd,        \* the command each connection goroutine has decoded
    response,   \* the handler's result each connection goroutine holds
    sent,       \* per connection, the responses written to the client, in order
    syncPc,     \* position of the Aof.sync goroutine
    steps,      \* inputs received and restarts so far (bounded by MaxSteps)
    appendFailed,  \* history: some file.Write has failed since the file was created
    accepted,   \* history: the connections accepted since the process started
    seen,       \* history: per connection with a GET in progress, what the cache has held for its key since the GET was read
    got,        \* history: per connection, what each conn.Read since the accept held: the command decoded, ZeroValue when it held none
    failedOn,   \* history: the connection whose command in progress had its file.Write fail, or "none"
    fileOff,    \* the offset of the open file: where the next file.Write puts its bytes
    fileOpen,   \* the process holds the file open: os.OpenFile has returned it and file.Close has not been called
    \* ---- the handlers called one after another ----
    hcache,     \* store.cache
    hpre,       \* store.cache as it was before the last call
    href,       \* the keyspace of the specification: keys are exact texts
    hrpre,      \* href as it was before the last call
    hcall,      \* the last call: [name, args, resp]
    hcalls,     \* number of calls so far (bounded by MaxCalls)
    \* ---- the codec alone ----
    cmode,      \* "enc": encode a value then decode it; "dec": decode bytes then encode the value
    cpc,        \* "start", "mid", "done"
    cval,       \* the value given ("enc")
    cbytes,     \* the bytes given ("dec") or produced by Marshal ("enc")
    cres,       \* the result of Resp.Read
    cout,       \* the bytes Marshal produces from the decoded value ("dec")
    \* ---- one connection and its byte stream ----
    stream,     \* the bytes the client has written that conn.Read has not yet returned
    asked,      \* history: the number of commands the client has written (bounded by MaxCmds)
    connEnd,    \* what conn.Read returns when no byte is left: "none" (it waits), "eof" (the client has closed) or "err" (the stream has failed)
    \* ---- a file written before the process starts ----
    records     \* history: the encoded commands the file was made of, in order (bounded by MaxRecords)

serverVars == <<phase, aofFile, mu, cache, rw, pc, cmd, response, sent, syncPc,
                steps, appendFailed, accepted, seen, got, failedOn, fileOff, fileOpen>>
handlerVars == <<hcache, hpre, href, hrpre, hcall, hcalls>>
codecVars == <<cmode, cpc, cval, cbytes, cres, cout>>
streamVars == <<stream, asked, connEnd>>
replayVars == <<records>>
vars == <<serverVars, handlerVars, codecVars, streamVars, replayVars>>

----------------------------------------------------------------------------
(* Bounds of the model.                                                    *)

\* Inputs received by all connections together, plus restarts.
MaxSteps == 2
\* Handler calls in a run of the handlers alone.
MaxCalls == 3
\* Length of the raw byte buffers given to the decoder.
MaxBufLen == 4
\* Commands a client writes to the stream of one connection.
MaxCmds == 2
\* Complete records of a file written before the process starts.
MaxRecords == 3

----------------------------------------------------------------------------
(* resp/writer.go: the value type.                                         *)

CR == "\r"
LF == "\n"

RespString  == "+"
RespError   == "-"
RespInteger == ":"
RespBulk    == "$"
RespArray   == "*"
RespNull    == "_"

\* RespValue{}: Type is the zero byte.
ZeroValue == [Type |-> "NUL", String |-> <<>>, Integer |-> 0, Bulk |-> <<>>, Array |-> <<>>]

NewSimpleString(s) == [ZeroValue EXCEPT !.Type = RespString, !.String = s]
NewBulkString(b)   == [ZeroValue EXCEPT !.Type = RespBulk, !.Bulk = b]
NewInteger(i)      == [ZeroValue EXCEPT !.Type = RespInteger, !.Integer = i]
NewArray(arr)      == [ZeroValue EXCEPT !.Type = RespArray, !.Array = arr]
NewNull            == [ZeroValue EXCEPT !.Type = RespNull]
NewError(msg)      == [ZeroValue EXCEPT !.Type = RespError, !.String = msg]

----------------------------------------------------------------------------
(* strconv.Itoa and strconv.Atoi, as resp uses them.                       *)

Digits == <<"0", "1", "2", "3", "4", "5", "6", "7", "8", "9">>

IsDigit(ch) == \E d \in 1..10 : Digits[d] = ch
DigitVal(ch) == (CHOOSE d \in 1..10 : Digits[d] = ch) - 1

RECURSIVE NatDigits(_)
NatDigits(n) ==
    IF n < 10 THEN <<Digits[n + 1]>>
    ELSE Append(NatDigits(n \div 10), Digits[(n % 10) + 1])

Itoa(i) == IF i < 0 THEN <<"-">> \o NatDigits(-i) ELSE NatDigits(i)

RECURSIVE DigitsVal(_, _)
DigitsVal(s, acc) ==
    IF s = <<>> THEN acc ELSE DigitsVal(Tail(s), acc * 10 + DigitVal(Head(s)))

\* An optional sign, then one or more decimal digits; anything else is a syntax error.
Atoi(s) ==
    LET signed == Len(s) > 0 /\ Head(s) \in {"-", "+"}
        body == IF signed THEN Tail(s) ELSE s
    IN  IF Len(body) = 0 \/ \E i \in 1..Len(body) : ~IsDigit(body[i])
        THEN [ok |-> FALSE, val |-> 0]
        ELSE [ok |-> TRUE,
              val |-> IF signed /\ Head(s) = "-" THEN -DigitsVal(body, 0)
                      ELSE DigitsVal(body, 0)]

----------------------------------------------------------------------------
(* resp/writer.go: Marshal.                                                *)

marshalSimpleString(s) == <<RespString>> \o s \o <<CR, LF>>
marshalError(msg)      == <<RespError>> \o msg \o <<CR, LF>>
marshalInteger(i)      == <<RespInteger>> \o Itoa(i) \o <<CR, LF>>
marshalBulk(b)         == <<RespBulk>> \o Itoa(Len(b)) \o <<CR, LF>> \o b \o <<CR, LF>>
marshalNull            == <<RespNull, CR, LF>>

RECURSIVE Marshal(_), marshalItems(_)
marshalItems(arr) ==
    IF arr = <<>> THEN <<>> ELSE Marshal(Head(arr)) \o marshalItems(Tail(arr))

marshalArray(arr) == <<RespArray>> \o Itoa(Len(arr)) \o <<CR, LF>> \o marshalItems(arr)

Marshal(rv) ==
    CASE rv.Type = RespString  -> marshalSimpleString(rv.String)
      [] rv.Type = RespError   -> marshalError(rv.String)
      [] rv.Type = RespInteger -> marshalInteger(rv.Integer)
      [] rv.Type = RespBulk    -> marshalBulk(rv.Bulk)
      [] rv.Type = RespArray   -> marshalArray(rv.Array)
      [] rv.Type = RespNull    -> marshalNull
      [] OTHER                 -> <<>>

----------------------------------------------------------------------------
(* resp/reader.go: Resp.Read over buf from the cursor curr.  A result is   *)
(* [st, val, curr]: st = "ok" with the value, "err" for a returned error,  *)
(* "panic" for a run-time panic (which ends the process).                  *)

ReadOk(v, c)  == [st |-> "ok", val |-> v, curr |-> c]
ReadErr(c)    == [st |-> "err", val |-> ZeroValue, curr |-> c]
ReadPanic(c)  == [st |-> "panic", val |-> ZeroValue, curr |-> c]

\* The index at which readLine's loop breaks.
RECURSIVE lineEnd(_, _)
lineEnd(buf, c) ==
    IF c + 1 >= Len(buf) \/ (buf[c + 1] = CR /\ buf[c + 2] = LF)
    THEN c
    ELSE lineEnd(buf, c + 1)

\* buf[start:end], start <= end <= len(buf) at every call (the cursor is
\* at most len(buf) right after readByte).
readLine(buf, curr) ==
    LET end == lineEnd(buf, curr)
    IN  [line |-> SubSeq(buf, curr + 1, end), curr |-> end + 2]

readSimpleString(buf, curr) ==
    LET l == readLine(buf, curr) IN ReadOk(NewSimpleString(l.line), l.curr)

readError(buf, curr) ==
    LET l == readLine(buf, curr) IN ReadOk(NewError(l.line), l.curr)

readInteger(buf, curr) ==
    LET l == readLine(buf, curr)
        n == Atoi(l.line)
    IN  IF ~n.ok THEN ReadErr(l.curr) ELSE ReadOk(NewInteger(n.val), l.curr)

\* r.buf[start:end] panics (slice bounds out of range) when end < start.
\* readBulk without the test for a declared length of -1.
readBulkNoNullLength(buf, curr) ==
    LET l == readLine(buf, curr)
        n == Atoi(l.line)
        start == l.curr
        end == start + n.val
    IN  IF ~n.ok THEN ReadErr(l.curr)
        ELSE IF end > Len(buf) THEN ReadErr(l.curr)
        ELSE IF end < start THEN ReadPanic(l.curr)
        ELSE ReadOk(NewBulkString(SubSeq(buf, start + 1, end)), end + 2)

readBulk(buf, curr) ==
    LET l == readLine(buf, curr)
        n == Atoi(l.line)
        start == l.curr
        end == start + n.val
    IN  IF ~n.ok THEN ReadErr(l.curr)
        ELSE IF n.val = -1 THEN ReadOk(NewNull, l.curr)
        ELSE IF end > Len(buf) THEN ReadErr(l.curr)
        ELSE IF end < start THEN ReadPanic(l.curr)
        ELSE ReadOk(NewBulkString(SubSeq(buf, start + 1, end)), end + 2)

RECURSIVE Read(_, _), readItems(_, _, _, _)

\* The loop of readArray: n items left to read, acc the values read so far.
readItems(buf, curr, n, acc) ==
    IF n = 0 THEN ReadOk(NewArray(acc), curr)
    ELSE LET r == Read(buf, curr)
         IN  IF r.st # "ok" THEN [r EXCEPT !.val = ZeroValue]
             ELSE readItems(buf, r.curr, n - 1, Append(acc, r.val))

\* make([]RespValue, 0, length) panics (cap out of range) when length < 0.
readArray(buf, curr) ==
    LET l == readLine(buf, curr)
        n == Atoi(l.line)
    IN  IF ~n.ok THEN ReadErr(l.curr)
        ELSE IF n.val = -1 THEN ReadOk(NewNull, l.curr)
        ELSE IF n.val < 0 THEN ReadPanic(l.curr)
        ELSE readItems(buf, l.curr, n.val, <<>>)

Read(buf, curr) ==
    IF curr >= Len(buf) THEN ReadErr(curr)
    ELSE LET b == buf[curr + 1]
             c == curr + 1
         IN  CASE b = RespString  -> readSimpleString(buf, c)
               [] b = RespError   -> readError(buf, c)
               [] b = RespInteger -> readInteger(buf, c)
               [] b = RespBulk    -> readBulk(buf, c)
               [] b = RespArray   -> readArray(buf, c)
               [] b = RespNull    -> ReadOk(NewNull, c)
               [] OTHER           -> ReadErr(c)

\* Resp.HasNext: the cursor after skipping CR and LF bytes.
RECURSIVE skipCrLf(_, _)
skipCrLf(buf, curr) ==
    IF curr < Len(buf) /\ buf[curr + 1] \in {CR, LF}
    THEN skipCrLf(buf, curr + 1)
    ELSE curr

HasNext(buf, curr) == skipCrLf(buf, curr) < Len(buf)

----------------------------------------------------------------------------
(* strings.TrimSpace and strings.ToUpper, as the handlers and the          *)
(* connection loop use them.                                               *)

WhiteSpace == {" ", "\t", "\n", "\r", "\f"}

RECURSIVE trimLeft(_), trimRight(_)
trimLeft(s) ==
    IF s # <<>> /\ Head(s) \in WhiteSpace THEN trimLeft(Tail(s)) ELSE s
trimRight(s) ==
    IF s # <<>> /\ s[Len(s)] \in WhiteSpace
    THEN trimRight(SubSeq(s, 1, Len(s) - 1))
    ELSE s

TrimSpace(s) == trimRight(trimLeft(s))

LowerCase == <<"a", "b", "c", "d", "e", "f", "g", "h", "i", "j", "k", "l", "m",
               "n", "o", "p", "q", "r", "s", "t", "u", "v", "w", "x", "y", "z">>
UpperCase == <<"A", "B", "C", "D", "E", "F", "G", "H", "I", "J", "K", "L", "M",
               "N", "O", "P", "Q", "R", "S", "T", "U", "V", "W", "X", "Y", "Z">>

upperChar(ch) ==
    IF \E i \in 1..Len(LowerCase) : LowerCase[i] = ch
    THEN UpperCase[CHOOSE i \in 1..Len(LowerCase) : LowerCase[i] = ch]
    ELSE ch

ToUpper(s) == [i \in 1..Len(s) |-> upperChar(s[i])]

\* strings.Join(values, " ") over the Bulk fields of args.
RECURSIVE joinBulk(_)
joinBulk(args) ==
    IF Len(args) = 1 THEN args[1].Bulk
    ELSE args[1].Bulk \o <<" ">> \o joinBulk(Tail(args))

----------------------------------------------------------------------------
(* store/db.go and store/handlers.go.  The cache is a function from the    *)
(* keys present to their values.  A handler applied to its arguments and   *)
(* the cache gives [resp, cache, lock]: the response, the cache it leaves  *)
(* and the way it takes cacheLock on that path ("none", "R" or "W").       *)

EmptyCache == [k \in {} |-> ZeroValue]

Put(c, key, value) == [k \in DOMAIN c \cup {key} |-> IF k = key THEN value ELSE c[k]]
Delete(c, key)     == [k \in DOMAIN c \ {key} |-> c[k]]

PING == <<"P", "I", "N", "G">>
GET  == <<"G", "E", "T">>
SET  == <<"S", "E", "T">>
DEL  == <<"D", "E", "L">>

PONG == <<"P", "O", "N", "G">>
OK   == <<"O", "K">>
ErrWrongArgs(name) ==
    <<"E", "R", "R", " ", "w", "r", "o", "n", "g", " ", "n", "u", "m", "b", "e", "r", " ", "o", "f">>
    \o <<" ", "a", "r", "g", "u", "m", "e", "n", "t", "s", " ", "f", "o", "r", " ", "'">> \o name \o <<"'">>
ErrInvalidCommand ==
    <<"E", "R", "R", " ", "i", "n", "v", "a", "l", "i", "d", " ", "c", "o", "m", "m", "a", "n", "d">>
ErrUnknownCommand ==
    <<"E", "R", "R", " ", "u", "n", "k", "n", "o", "w", "n", " ", "c", "o", "m", "m", "a", "n", "d">>

\* ping answering with its first argument alone.
pingFirstOnly(args, c) ==
    IF Len(args) = 0
    THEN [resp |-> NewSimpleString(PONG), cache |-> c, lock |-> "none"]
    ELSE [resp |-> NewBulkString(args[1].Bulk), cache |-> c, lock |-> "none"]

ping(args, c) ==
    IF Len(args) = 0
    THEN [resp |-> NewSimpleString(PONG), cache |-> c, lock |-> "none"]
    ELSE [resp |-> NewBulkString(joinBulk(args)), cache |-> c, lock |-> "none"]

\* set testing for fewer than two arguments only.
setAtLeastTwo(args, c) ==
    IF Len(args) < 2
    THEN [resp |-> NewError(ErrWrongArgs(SET)), cache |-> c, lock |-> "none"]
    ELSE [resp |-> NewSimpleString(OK),
          cache |-> Put(c, TrimSpace(args[1].Bulk), args[2]),
          lock |-> "W"]

set(args, c) ==
    IF Len(args) # 2
    THEN [resp |-> NewError(ErrWrongArgs(SET)), cache |-> c, lock |-> "none"]
    ELSE [resp |-> NewSimpleString(OK),
          cache |-> Put(c, TrimSpace(args[1].Bulk), args[2]),
          lock |-> "W"]

get(args, c) ==
    IF Len(args) # 1
    THEN [resp |-> NewError(ErrWrongArgs(GET)), cache |-> c, lock |-> "none"]
    ELSE LET key == TrimSpace(args[1].Bulk)
         IN  [resp |-> IF key \in DOMAIN c THEN c[key] ELSE NewNull,
              cache |-> c,
              lock |-> "R"]

\* The loop of del over the arguments left, with the count so far.
RECURSIVE delLoop(_, _, _)
delLoop(args, c, deleted) ==
    IF args = <<>> THEN [cache |-> c, deleted |-> deleted]
    ELSE LET key == TrimSpace(Head(args).Bulk)
         IN  IF key \in DOMAIN c
             THEN delLoop(Tail(args), Delete(c, key), deleted + 1)
             ELSE delLoop(Tail(args), c, deleted)

\* del reporting the keys it was given, not those it has removed.
delCountsNamed(args, c) ==
    IF Len(args) = 0
    THEN [resp |-> NewError(ErrWrongArgs(DEL)), cache |-> c, lock |-> "none"]
    ELSE [resp |-> NewInteger(Len(args)), cache |-> delLoop(args, c, 0).cache, lock |-> "W"]

del(args, c) ==
    IF Len(args) = 0
    THEN [resp |-> NewError(ErrWrongArgs(DEL)), cache |-> c, lock |-> "none"]
    ELSE LET r == delLoop(args, c, 0)
         IN  [resp |-> NewInteger(r.deleted), cache |-> r.cache, lock |-> "W"]

\* store.Handlers.
HandlerNames == {PING, GET, SET, DEL}

Handlers(name, args, c) ==
    CASE name = PING -> ping(args, c)
      [] name = GET  -> get(args, c)
      [] name = SET  -> set(args, c)
      [] name = DEL  -> del(args, c)

----------------------------------------------------------------------------
(* The state each part starts in, and the part left alone by a             *)
(* specification of another part.                                          *)

Conns == {"c1", "c2"}

NoCall == [name |-> <<>>, args |-> <<>>, resp |-> ZeroValue]

ServerInit ==
    /\ phase = "boot"
    /\ aofFile = <<>>
    /\ mu = "free"
    /\ cache = EmptyCache
    /\ rw = [writer |-> "none", readers |-> {}]
    /\ pc = [c \in Conns |-> "closed"]
    /\ cmd = [c \in Conns |-> ZeroValue]
    /\ response = [c \in Conns |-> ZeroValue]
    /\ sent = [c \in Conns |-> <<>>]
    /\ syncPc = "off"
    /\ steps = 0
    /\ appendFailed = FALSE
    /\ accepted = {}
    /\ seen = [c \in Conns |-> {}]
    /\ got = [c \in Conns |-> <<>>]
    /\ failedOn = "none"
    /\ fileOff = 0
    /\ fileOpen = FALSE
    /\ stream = <<>>
    /\ asked = 0
    /\ connEnd = "none"
    /\ records = <<>>

HandlerInit ==
    /\ hcache = EmptyCache
    /\ hpre = EmptyCache
    /\ href = EmptyCache
    /\ hrpre = EmptyCache
    /\ hcall = NoCall
    /\ hcalls = 0

CodecIdle ==
    /\ cmode = "off"
    /\ cpc = "start"
    /\ cval = ZeroValue
    /\ cbytes = <<>>
    /\ cres = ReadErr(0)
    /\ cout = <<>>

----------------------------------------------------------------------------
(* The codec alone: Marshal then Read on a value, Read then Marshal on a   *)
(* buffer.                                                                 *)

BaseValues ==
    { NewSimpleString(<<>>), NewSimpleString(OK), NewError(ErrUnknownCommand),
      NewInteger(-12), NewInteger(0), NewInteger(7),
      NewBulkString(<<>>), NewBulkString(<<"a">>), NewBulkString(<<"a", CR, LF, "b">>),
      NewNull }

CodecValues ==
    BaseValues
    \cup {NewArray(<<>>)}
    \cup {NewArray(<<x>>) : x \in BaseValues}
    \cup {NewArray(<<x, y>>) : x \in BaseValues, y \in BaseValues}
    \cup {NewArray(<<NewArray(<<x>>), y>>) : x \in BaseValues, y \in BaseValues}

RawBytes == {RespBulk, RespArray, RespNull, RespInteger, "-", "1", "2", CR, LF}

NullBulkBytes   == <<RespBulk, "-", "1", CR, LF>>
NullArrayBytes  == <<RespArray, "-", "1", CR, LF>>
EmptyBulkBytes  == <<RespBulk, "0", CR, LF, CR, LF>>
EmptyArrayBytes == <<RespArray, "0", CR, LF>>

\* Buffers that declare a bulk string of one or two bytes and end in its
\* payload, after its payload, in its terminator or after its terminator.
BulkBufs ==
    { <<RespBulk, "1", CR, LF>> \o rest :
         rest \in {<<"2">>, <<"2", CR>>, <<"2", CR, LF>>, <<"2", "1", "2">>} }
    \cup { <<RespBulk, "2", CR, LF>> \o rest :
         rest \in {<<"1">>, <<"1", "2">>, <<"1", "2", CR>>, <<"1", "2", CR, LF>>} }

CodecBufs ==
    UNION {[1..n -> RawBytes] : n \in 0..MaxBufLen}
    \cup {NullBulkBytes, NullArrayBytes, EmptyBulkBytes, EmptyArrayBytes}
    \cup BulkBufs

CodecInit ==
    /\ cpc = "start"
    /\ \/ cmode = "enc" /\ cval \in CodecValues /\ cbytes = <<>>
       \/ cmode = "dec" /\ cval = ZeroValue /\ cbytes \in CodecBufs
    /\ cres = ReadErr(0)
    /\ cout = <<>>
    /\ ServerInit
    /\ HandlerInit

\* Bytes that follow the encoding of a value in a buffer.
FurtherBytes == { <<>>, <<"x">>, <<CR, LF>>, <<RespInteger, "7", CR, LF>> }

CodecEncode ==
    /\ cmode = "enc" /\ cpc = "start"
    /\ \E more \in FurtherBytes : cbytes' = Marshal(cval) \o more
    /\ cpc' = "mid"
    /\ UNCHANGED <<cmode, cval, cres, cout, serverVars, handlerVars, streamVars, replayVars>>

CodecDecode ==
    /\ \/ cmode = "enc" /\ cpc = "mid"
       \/ cmode = "dec" /\ cpc = "start"
    /\ cres' = Read(cbytes, 0)
    /\ cpc' = IF cmode = "enc" THEN "done" ELSE "mid"
    /\ UNCHANGED <<cmode, cval, cbytes, cout, serverVars, handlerVars, streamVars, replayVars>>

CodecReEncode ==
    /\ cmode = "dec" /\ cpc = "mid" /\ cres.st = "ok"
    /\ cout' = Marshal(cres.val)
    /\ cpc' = "done"
    /\ UNCHANGED <<cmode, cval, cbytes, cres, serverVars, handlerVars, streamVars, replayVars>>

CodecNext == CodecEncode \/ CodecDecode \/ CodecReEncode

CodecSpec == CodecInit /\ [][CodecNext]_vars

----------------------------------------------------------------------------
(* The handlers alone, called one after another on one cache.              *)

ArgValues ==
    { NewBulkString(<<"k">>), NewBulkString(<<" ", "k">>), NewBulkString(<<"K">>) }

ArgLists == UNION {[1..n -> ArgValues] : n \in 0..3}

\* Argument lists holding a value that is not a bulk string, as the decoder
\* hands them over for an array such as *2 $4 PING :7.
OtherArgLists ==
    { <<NewInteger(7)>>, <<NewNull>>, <<NewSimpleString(<<"k">>)>>,
      <<NewArray(<<NewBulkString(<<"k">>)>>)>>,
      <<NewBulkString(<<"k">>), NewInteger(7)>>,
      <<NewNull, NewBulkString(<<"K">>)>> }

\* The keyspace of the specification after a call: a key is the exact text
\* of the argument; SET key value maps it, DEL removes every key it names.
RECURSIVE refDelete(_, _)
refDelete(args, ref) ==
    IF args = <<>> THEN ref
    ELSE refDelete(Tail(args), Delete(ref, Head(args).Bulk))

RefApply(name, args, ref) ==
    CASE name = SET /\ Len(args) = 2 -> Put(ref, args[1].Bulk, args[2])
      [] name = DEL /\ Len(args) > 0 -> refDelete(args, ref)
      [] OTHER -> ref

Call(name, args) ==
    /\ LET r == Handlers(name, args, hcache)
       IN  /\ hcache' = r.cache
           /\ hcall' = [name |-> name, args |-> args, resp |-> r.resp]
    /\ hpre' = hcache
    /\ href' = RefApply(name, args, href)
    /\ hrpre' = href
    /\ hcalls' = hcalls + 1
    /\ UNCHANGED <<serverVars, codecVars, streamVars, replayVars>>

CallPing == \E args \in ArgLists \cup OtherArgLists : hcalls < MaxCalls /\ Call(PING, args)
CallSet  == \E args \in ArgLists : hcalls < MaxCalls /\ Call(SET, args)
CallGet  == \E args \in ArgLists : hcalls < MaxCalls /\ Call(GET, args)
CallDel  == \E args \in ArgLists : hcalls < MaxCalls /\ Call(DEL, args)

HandlerNext == CallPing \/ CallSet \/ CallGet \/ CallDel

HandlerSpecInit ==
    /\ HandlerInit
    /\ ServerInit
    /\ CodecIdle

HandlerSpec == HandlerSpecInit /\ [][HandlerNext]_vars

----------------------------------------------------------------------------
(* persistence/aof.go: replay.  Aof.Read over the bytes of the file,       *)
(* starting from the cache c: [st, cache] with st = "ok" for a nil error,  *)
(* "err" for a returned error and "panic" for a panic of the decoder.      *)

\* Aof.Read with `if parser.HasNext()` in place of the loop: only the first
\* value of the file is looked at.
replayFirstOnly(data, curr, c) ==
    LET at == skipCrLf(data, curr)
    IN  IF at >= Len(data) THEN [st |-> "ok", cache |-> c]
        ELSE LET r == Read(data, at)
             IN  IF r.st # "ok" THEN [st |-> r.st, cache |-> c]
                 ELSE IF r.val.Type # RespArray \/ Len(r.val.Array) = 0
                      THEN [st |-> "ok", cache |-> c]
                 ELSE LET commandName == ToUpper(r.val.Array[1].Bulk)
                          args == Tail(r.val.Array)
                      IN  IF commandName \notin HandlerNames
                          THEN [st |-> "err", cache |-> c]
                          ELSE [st |-> "ok",
                                cache |-> Handlers(commandName, args, c).cache]

\* A replay that skips a command it does not know, as it skips a value that
\* is not a command.
RECURSIVE replaySkipsUnknown(_, _, _)
replaySkipsUnknown(data, curr, c) ==
    LET at == skipCrLf(data, curr)
    IN  IF at >= Len(data) THEN [st |-> "ok", cache |-> c]
        ELSE LET r == Read(data, at)
             IN  IF r.st # "ok" THEN [st |-> r.st, cache |-> c]
                 ELSE IF r.val.Type # RespArray \/ Len(r.val.Array) = 0
                      THEN replaySkipsUnknown(data, r.curr, c)
                 ELSE LET commandName == ToUpper(r.val.Array[1].Bulk)
                          args == Tail(r.val.Array)
                      IN  IF commandName \notin HandlerNames
                          THEN replaySkipsUnknown(data, r.curr, c)
                          ELSE replaySkipsUnknown(data, r.curr,
                                          Handlers(commandName, args, c).cache)

RECURSIVE replayFrom(_, _, _)
replayFrom(data, curr, c) ==
    LET at == skipCrLf(data, curr)
    IN  IF at >= Len(data) THEN [st |-> "ok", cache |-> c]
        ELSE LET r == Read(data, at)
             IN  IF r.st # "ok" THEN [st |-> r.st, cache |-> c]
                 ELSE IF r.val.Type # RespArray \/ Len(r.val.Array) = 0
                      THEN replayFrom(data, r.curr, c)
                 ELSE LET commandName == ToUpper(r.val.Array[1].Bulk)
                          args == Tail(r.val.Array)
                      IN  IF commandName \notin HandlerNames
                          THEN [st |-> "err", cache |-> c]
                          ELSE replayFrom(data, r.curr,
                                          Handlers(commandName, args, c).cache)

AofRead(data) == replayFrom(data, 0, EmptyCache)

\* file.Write(p) at the file's offset: the bytes from there on are
\* overwritten and the file grows as far as p reaches.
fileWrite(file, off, p) ==
    SubSeq(file, 1, off) \o p \o SubSeq(file, off + Len(p) + 1, Len(file))

\* os.OpenFile without O_APPEND: the offset of a file just opened.
OpenOffset(file) == 0

\* io.ReadAll(a.rd) reads up to the end of the file and leaves the offset
\* there.
ReadAllOffset(file) == Len(file)

\* What a failed file.Write may leave behind: nothing, or the record short
\* of its last byte (two of the short writes the system can make).
ShortWrites(p) == {<<>>, SubSeq(p, 1, Len(p) - 1)}

----------------------------------------------------------------------------
(* server/server.go and cmd/redis-lite/main.go: the process.               *)

\* What a client sends in one read: commands as arrays of bulk strings,
\* and raw buffers.
Bulks(words) == [i \in 1..Len(words) |-> NewBulkString(words[i])]

ClientCommands ==
    { Bulks(<<SET, <<"k">>, <<"a">>>>),
      Bulks(<<SET, <<"k">>, <<"b">>>>),
      Bulks(<<GET, <<"k">>>>),
      Bulks(<<DEL, <<"k">>>>),
      Bulks(<<PING>>),
      Bulks(<<SET, <<"k">>>>),
      Bulks(<<<<"F", "O", "O">>>>) }

\* SET with an absent bulk string ($-1) as its key, as a client encodes it.
SetAbsentKey ==
    <<RespArray, "3", CR, LF>> \o marshalBulk(SET) \o NullBulkBytes \o marshalBulk(<<"a">>)

RawInputs ==
    { <<"x">>, <<RespBulk, "-", "2", CR, LF>>, SetAbsentKey,
      <<RespString, "O", "K", CR, LF>>, <<RespArray, "0", CR, LF>> }

Inputs == {Marshal(NewArray(c)) : c \in ClientCommands} \cup RawInputs

NoLock == [writer |-> "none", readers |-> {}]

\* The process ends (log.Fatalf, a panic, a kill): its goroutines, its
\* connections and its memory are gone; the file stays.
ProcessGone ==
    /\ mu' = "free"
    /\ cache' = EmptyCache
    /\ rw' = NoLock
    /\ pc' = [c \in Conns |-> "closed"]
    /\ cmd' = [c \in Conns |-> ZeroValue]
    /\ response' = [c \in Conns |-> ZeroValue]
    /\ sent' = [c \in Conns |-> <<>>]
    /\ syncPc' = "off"
    /\ accepted' = {}
    /\ seen' = [c \in Conns |-> {}]
    /\ got' = [c \in Conns |-> <<>>]
    /\ failedOn' = "none"
    /\ fileOff' = 0
    /\ fileOpen' = FALSE

\* A well-formed GET: the command whose handler reads the cache.
IsGet(v) == Len(v.Array) = 2 /\ ToUpper(v.Array[1].Bulk) = GET

\* What the map holds for a key text, as get reads it.
Lookup(c, text) ==
    IF TrimSpace(text) \in DOMAIN c THEN c[TrimSpace(text)] ELSE NewNull

\* NewAof with `go a.sync()` ahead of a.Read(): the sync goroutine is there
\* whatever the replay returns.
NewAofSyncFirst ==
    /\ phase = "boot"
    /\ LET r == AofRead(aofFile)
       IN  IF r.st = "ok"
           THEN /\ phase' = "serving"
                /\ cache' = r.cache
           ELSE /\ phase' = "dead"
                /\ cache' = EmptyCache
    /\ syncPc' = "lock"
    /\ fileOff' = ReadAllOffset(aofFile)
    /\ fileOpen' = (AofRead(aofFile).st = "ok")
    /\ UNCHANGED <<aofFile, mu, rw, pc, cmd, response, sent, steps, appendFailed, accepted>>
    /\ UNCHANGED <<handlerVars, codecVars, streamVars, replayVars, seen, got, failedOn>>

\* A replay that goes through the path of a client's command: every record
\* it executes is appended to the file again.
NewAofAppendsReplayed ==
    /\ phase = "boot"
    /\ LET r == AofRead(aofFile)
       IN  IF r.st = "ok"
           THEN /\ phase' = "serving"
                /\ cache' = r.cache
                /\ syncPc' = "lock"
           ELSE /\ phase' = "dead"
                /\ cache' = EmptyCache
                /\ syncPc' = "off"
    /\ aofFile' = aofFile \o aofFile
    /\ fileOff' = Len(aofFile) + Len(aofFile)
    /\ fileOpen' = (AofRead(aofFile).st = "ok")
    /\ UNCHANGED <<mu, rw, pc, cmd, response, sent, steps, appendFailed, accepted>>
    /\ UNCHANGED <<handlerVars, codecVars, streamVars, replayVars, seen, got, failedOn>>

\* main: NewAof opens the file, replays it and starts the sync goroutine;
\* an error is fatal.
NewAof ==
    /\ phase = "boot"
    /\ LET r == AofRead(aofFile)
       IN  IF r.st = "ok"
           THEN /\ phase' = "serving"
                /\ cache' = r.cache
                /\ syncPc' = "lock"
           ELSE /\ phase' = "dead"
                /\ cache' = EmptyCache
                /\ syncPc' = "off"
    /\ fileOff' = ReadAllOffset(aofFile)
    /\ fileOpen' = (AofRead(aofFile).st = "ok")
    /\ UNCHANGED <<aofFile, mu, rw, pc, cmd, response, sent, steps, appendFailed, accepted>>
    /\ UNCHANGED <<handlerVars, codecVars, streamVars, replayVars, seen, got, failedOn>>

\* main: os.OpenFile fails in NewAof.
NewAofOpenError ==
    /\ phase = "boot"
    /\ phase' = "dead"
    /\ UNCHANGED <<aofFile, mu, cache, rw, pc, cmd, response, sent, syncPc, steps,
                   appendFailed, accepted>>
    /\ UNCHANGED <<handlerVars, codecVars, streamVars, replayVars, fileOpen, seen, got, failedOn, fileOff>>

\* A listener that is up before NewAof has returned.
AcceptBeforeReplay(c) ==
    /\ phase \in {"boot", "serving"}
    /\ pc[c] = "closed"
    /\ pc' = [pc EXCEPT ![c] = "read"]
    /\ accepted' = accepted \cup {c}
    /\ UNCHANGED <<sent, phase, aofFile, mu, cache, rw, cmd, response, syncPc, steps, appendFailed>>
    /\ UNCHANGED <<handlerVars, codecVars, streamVars, replayVars, fileOpen, seen, got, failedOn, fileOff>>

\* ListenAndServe: a connection is accepted and handleConnection started.
Accept(c) ==
    /\ phase = "serving"
    /\ pc[c] = "closed"
    /\ pc' = [pc EXCEPT ![c] = "read"]
    /\ accepted' = accepted \cup {c}
    /\ UNCHANGED <<sent, phase, aofFile, mu, cache, rw, cmd, response, syncPc, steps, appendFailed>>
    /\ UNCHANGED <<handlerVars, codecVars, streamVars, replayVars, fileOpen, seen, got, failedOn, fileOff>>

\* handleConnection returning after it has written one of its two error
\* answers, where the code has `continue`.
RecvClosesOnError(c) ==
    /\ phase = "serving"
    /\ pc[c] = "read"
    /\ steps < MaxSteps
    /\ \E buf \in Inputs :
          LET r == Read(buf, 0)
          IN  /\ steps' = steps + 1
              /\ IF r.st = "panic"
                 THEN /\ phase' = "dead"
                      /\ ProcessGone
                 ELSE /\ UNCHANGED <<phase, mu, cache, rw, response, syncPc, accepted,
                                     failedOn, fileOff, fileOpen>>
                      /\ IF r.st = "err" \/ Len(r.val.Array) = 0
                         THEN /\ sent' = [sent EXCEPT ![c] = Append(@, NewError(ErrInvalidCommand))]
                              /\ got' = [got EXCEPT ![c] = Append(@, ZeroValue)]
                              /\ pc' = [pc EXCEPT ![c] = "closed"]
                              /\ UNCHANGED <<cmd, seen>>
                         ELSE IF ToUpper(r.val.Array[1].Bulk) \notin HandlerNames
                         THEN /\ sent' = [sent EXCEPT ![c] = Append(@, NewError(ErrUnknownCommand))]
                              /\ got' = [got EXCEPT ![c] = Append(@, r.val)]
                              /\ pc' = [pc EXCEPT ![c] = "closed"]
                              /\ UNCHANGED <<cmd, seen>>
                         ELSE /\ cmd' = [cmd EXCEPT ![c] = r.val]
                              /\ got' = [got EXCEPT ![c] = Append(@, r.val)]
                              /\ pc' = [pc EXCEPT ![c] = "aofLock"]
                              /\ seen' = [seen EXCEPT ![c] =
                                             IF IsGet(r.val)
                                             THEN {Lookup(cache, r.val.Array[2].Bulk)}
                                             ELSE {}]
                              /\ UNCHANGED sent
    /\ UNCHANGED <<aofFile, appendFailed>>
    /\ UNCHANGED <<handlerVars, codecVars, streamVars, replayVars>>

\* handleConnection: conn.Read gives buf, the first value of buf is decoded
\* and the handler looked up; the two error answers are written here.
Recv(c) ==
    /\ phase = "serving"
    /\ pc[c] = "read"
    /\ steps < MaxSteps
    /\ \E buf \in Inputs :
          LET r == Read(buf, 0)
          IN  /\ steps' = steps + 1
              /\ IF r.st = "panic"
                 THEN /\ phase' = "dead"
                      /\ ProcessGone
                 ELSE /\ UNCHANGED <<phase, mu, cache, rw, response, syncPc, accepted,
                                     failedOn, fileOff, fileOpen>>
                      /\ IF r.st = "err" \/ Len(r.val.Array) = 0
                         THEN /\ sent' = [sent EXCEPT ![c] = Append(@, NewError(ErrInvalidCommand))]
                              /\ got' = [got EXCEPT ![c] = Append(@, ZeroValue)]
                              /\ UNCHANGED <<pc, cmd, seen>>
                         ELSE IF ToUpper(r.val.Array[1].Bulk) \notin HandlerNames
                         THEN /\ sent' = [sent EXCEPT ![c] = Append(@, NewError(ErrUnknownCommand))]
                              /\ got' = [got EXCEPT ![c] = Append(@, r.val)]
                              /\ UNCHANGED <<pc, cmd, seen>>
                         ELSE /\ cmd' = [cmd EXCEPT ![c] = r.val]
                              /\ got' = [got EXCEPT ![c] = Append(@, r.val)]
                              /\ pc' = [pc EXCEPT ![c] = "aofLock"]
                              /\ seen' = [seen EXCEPT ![c] =
                                             IF IsGet(r.val)
                                             THEN {Lookup(cache, r.val.Array[2].Bulk)}
                                             ELSE {}]
                              /\ UNCHANGED sent
    /\ UNCHANGED <<aofFile, appendFailed>>
    /\ UNCHANGED <<handlerVars, codecVars, streamVars, replayVars>>

\* handleConnection: conn.Read returns io.EOF; the goroutine returns and
\* the deferred conn.Close runs.
RecvEOF(c) ==
    /\ phase = "serving"
    /\ pc[c] = "read"
    /\ pc' = [pc EXCEPT ![c] = "closed"]
    /\ sent' = [sent EXCEPT ![c] = <<>>]
    /\ got' = [got EXCEPT ![c] = <<>>]
    /\ UNCHANGED <<phase, aofFile, mu, cache, rw, cmd, response, syncPc, steps,
                   appendFailed, accepted>>
    /\ UNCHANGED <<handlerVars, codecVars, streamVars, replayVars, fileOpen, seen, failedOn, fileOff>>

\* Aof.Write without a.mu.Lock(): the worker goes to file.Write whoever
\* holds the mutex.
AofLockNoWait(c) ==
    /\ phase = "serving"
    /\ pc[c] = "aofLock"
    /\ mu' = c
    /\ pc' = [pc EXCEPT ![c] = "aofWrite"]
    /\ UNCHANGED <<phase, aofFile, cache, rw, cmd, response, sent, syncPc, steps,
                   appendFailed, accepted>>
    /\ UNCHANGED <<handlerVars, codecVars, streamVars, replayVars, fileOpen, seen, got, failedOn, fileOff>>

\* Aof.Write: a.mu.Lock().
AofLock(c) ==
    /\ phase = "serving"
    /\ pc[c] = "aofLock"
    /\ mu = "free"
    /\ mu' = c
    /\ pc' = [pc EXCEPT ![c] = "aofWrite"]
    /\ UNCHANGED <<phase, aofFile, cache, rw, cmd, response, sent, syncPc, steps,
                   appendFailed, accepted>>
    /\ UNCHANGED <<handlerVars, codecVars, streamVars, replayVars, fileOpen, seen, got, failedOn, fileOff>>

\* handleConnection returning when aof.Write has returned an error, where
\* the code logs it and goes on.
AofWriteOrReturn(c) ==
    /\ phase = "serving"
    /\ pc[c] = "aofWrite"
    /\ \/ /\ fileOpen
          /\ aofFile' = fileWrite(aofFile, fileOff, Marshal(cmd[c]))
          /\ fileOff' = fileOff + Len(Marshal(cmd[c]))
          /\ pc' = [pc EXCEPT ![c] = "handler"]
          /\ UNCHANGED <<appendFailed, failedOn>>
       \/ /\ ~fileOpen
          /\ appendFailed' = TRUE
          /\ failedOn' = c
          /\ pc' = [pc EXCEPT ![c] = "closed"]
          /\ UNCHANGED <<aofFile, fileOff>>
       \/ /\ fileOpen
          /\ ~appendFailed
          /\ \E p \in ShortWrites(Marshal(cmd[c])) :
                /\ aofFile' = fileWrite(aofFile, fileOff, p)
                /\ fileOff' = fileOff + Len(p)
          /\ appendFailed' = TRUE
          /\ failedOn' = c
          /\ pc' = [pc EXCEPT ![c] = "closed"]
    /\ mu' = "free"
    /\ UNCHANGED <<phase, cache, rw, cmd, response, sent, syncPc, steps, accepted>>
    /\ UNCHANGED <<handlerVars, codecVars, streamVars, replayVars, fileOpen, seen, got>>

\* Aof.Write without its deferred a.mu.Unlock(): the worker goes on to the
\* handler with the mutex in its hands.
AofWriteKeepsLock(c) ==
    /\ phase = "serving"
    /\ pc[c] = "aofWrite"
    /\ aofFile' = fileWrite(aofFile, fileOff, Marshal(cmd[c]))
    /\ fileOff' = fileOff + Len(Marshal(cmd[c]))
    /\ pc' = [pc EXCEPT ![c] = "handler"]
    /\ UNCHANGED <<phase, mu, cache, rw, cmd, response, sent, syncPc, steps, accepted>>
    /\ UNCHANGED <<handlerVars, codecVars, streamVars, replayVars, fileOpen, seen, got,
                   appendFailed, failedOn>>

\* Aof.Write: a.file.Write(val.Marshal()) succeeds or fails, then the
\* deferred a.mu.Unlock(); handleConnection logs an error and goes on.
\* On a file that has been closed file.Write writes nothing and returns an
\* error.  At most one write on the open file fails in a behaviour.
AofWrite(c) ==
    /\ phase = "serving"
    /\ pc[c] = "aofWrite"
    /\ \/ /\ fileOpen
          /\ aofFile' = fileWrite(aofFile, fileOff, Marshal(cmd[c]))
          /\ fileOff' = fileOff + Len(Marshal(cmd[c]))
          /\ UNCHANGED <<appendFailed, failedOn>>
       \/ /\ ~fileOpen
          /\ appendFailed' = TRUE
          /\ failedOn' = c
          /\ UNCHANGED <<aofFile, fileOff>>
       \/ /\ fileOpen
          /\ ~appendFailed
          /\ \E p \in ShortWrites(Marshal(cmd[c])) :
                /\ aofFile' = fileWrite(aofFile, fileOff, p)
                /\ fileOff' = fileOff + Len(p)
          /\ appendFailed' = TRUE
          /\ failedOn' = c
    /\ mu' = "free"
    /\ pc' = [pc EXCEPT ![c] = "handler"]
    /\ UNCHANGED <<phase, cache, rw, cmd, response, sent, syncPc, steps, accepted>>
    /\ UNCHANGED <<handlerVars, codecVars, streamVars, replayVars, fileOpen, seen, got>>

CommandName(c) == ToUpper(cmd[c].Array[1].Bulk)
CommandArgs(c) == Tail(cmd[c].Array)

\* Dispatch with a get that does not wait for the writer to leave.
DispatchNoWait(c) ==
    /\ phase = "serving"
    /\ pc[c] = "handler"
    /\ LET r == Handlers(CommandName(c), CommandArgs(c), cache)
       IN  CASE r.lock = "none" ->
                  /\ response' = [response EXCEPT ![c] = r.resp]
                  /\ pc' = [pc EXCEPT ![c] = "respond"]
                  /\ UNCHANGED rw
             [] r.lock = "W" ->
                  /\ rw.writer = "none" /\ rw.readers = {}
                  /\ rw' = [rw EXCEPT !.writer = c]
                  /\ pc' = [pc EXCEPT ![c] = "locked"]
                  /\ UNCHANGED response
             [] r.lock = "R" ->
                  /\ rw' = [rw EXCEPT !.readers = @ \cup {c}]
                  /\ pc' = [pc EXCEPT ![c] = "locked"]
                  /\ UNCHANGED response
    /\ UNCHANGED <<phase, aofFile, mu, cache, cmd, sent, syncPc, steps,
                   appendFailed, accepted>>
    /\ UNCHANGED <<handlerVars, codecVars, streamVars, replayVars, fileOpen, seen, got, failedOn, fileOff>>

\* Dispatch with a set or del that does not wait for the others to leave.
DispatchWriterNoWait(c) ==
    /\ phase = "serving"
    /\ pc[c] = "handler"
    /\ LET r == Handlers(CommandName(c), CommandArgs(c), cache)
       IN  CASE r.lock = "none" ->
                  /\ response' = [response EXCEPT ![c] = r.resp]
                  /\ pc' = [pc EXCEPT ![c] = "respond"]
                  /\ UNCHANGED rw
             [] r.lock = "W" ->
                  /\ rw' = [rw EXCEPT !.writer = c]
                  /\ pc' = [pc EXCEPT ![c] = "locked"]
                  /\ UNCHANGED response
             [] r.lock = "R" ->
                  /\ rw.writer = "none"
                  /\ rw' = [rw EXCEPT !.readers = @ \cup {c}]
                  /\ pc' = [pc EXCEPT ![c] = "locked"]
                  /\ UNCHANGED response
    /\ UNCHANGED <<phase, aofFile, mu, cache, cmd, sent, syncPc, steps,
                   appendFailed, accepted>>
    /\ UNCHANGED <<handlerVars, codecVars, streamVars, replayVars, fileOpen, seen, got, failedOn, fileOff>>

\* handleConnection: handler(cmd.Array[1:]) is entered. A path that takes
\* no lock returns at once; set and del go on when cacheLock.Lock() is
\* granted, get when cacheLock.RLock() is.
Dispatch(c) ==
    /\ phase = "serving"
    /\ pc[c] = "handler"
    /\ LET r == Handlers(CommandName(c), CommandArgs(c), cache)
       IN  CASE r.lock = "none" ->
                  /\ response' = [response EXCEPT ![c] = r.resp]
                  /\ pc' = [pc EXCEPT ![c] = "respond"]
                  /\ UNCHANGED rw
             [] r.lock = "W" ->
                  /\ rw.writer = "none" /\ rw.readers = {}
                  /\ rw' = [rw EXCEPT !.writer = c]
                  /\ pc' = [pc EXCEPT ![c] = "locked"]
                  /\ UNCHANGED response
             [] r.lock = "R" ->
                  /\ rw.writer = "none"
                  /\ rw' = [rw EXCEPT !.readers = @ \cup {c}]
                  /\ pc' = [pc EXCEPT ![c] = "locked"]
                  /\ UNCHANGED response
    /\ UNCHANGED <<phase, aofFile, mu, cache, cmd, sent, syncPc, steps,
                   appendFailed, accepted>>
    /\ UNCHANGED <<handlerVars, codecVars, streamVars, replayVars, fileOpen, seen, got, failedOn, fileOff>>

\* The goroutine c reads the map while another goroutine is inside the
\* write-locked section: a data race, whose outcome Go leaves undefined.
RacingRead(c) == c \in rw.readers /\ rw.writer # "none"

\* Handlers that persist: a set or del that has changed the map appends
\* the command to the file itself.
HandlerRunAppends(c) ==
    /\ phase = "serving"
    /\ pc[c] = "locked"
    /\ LET r == Handlers(CommandName(c), CommandArgs(c), cache)
       IN  /\ cache' = r.cache
           /\ \E v \in (IF c \in rw.readers /\ rw.writer # "none"
                        THEN {r.resp, ZeroValue} ELSE {r.resp}) :
                 response' = [response EXCEPT ![c] = v]
           /\ seen' = [d \in Conns |->
                         IF d # c /\ seen[d] # {}
                         THEN seen[d] \cup {Lookup(r.cache, cmd[d].Array[2].Bulk)}
                         ELSE seen[d]]
           /\ IF r.cache # cache
              THEN /\ aofFile' = fileWrite(aofFile, fileOff, Marshal(cmd[c]))
                   /\ fileOff' = fileOff + Len(Marshal(cmd[c]))
              ELSE UNCHANGED <<aofFile, fileOff>>
    /\ rw' = [writer |-> IF rw.writer = c THEN "none" ELSE rw.writer,
              readers |-> rw.readers \ {c}]
    /\ pc' = [pc EXCEPT ![c] = "respond"]
    /\ UNCHANGED <<phase, mu, cmd, sent, syncPc, steps, appendFailed, accepted,
                   got, failedOn>>
    /\ UNCHANGED <<handlerVars, codecVars, streamVars, replayVars, fileOpen>>

\* set, get, del: the body under cacheLock, then Unlock or RUnlock. A read
\* that races with a writer gives the value or something else.
HandlerRun(c) ==
    /\ phase = "serving"
    /\ pc[c] = "locked"
    /\ LET r == Handlers(CommandName(c), CommandArgs(c), cache)
       IN  /\ cache' = r.cache
           /\ \E v \in (IF RacingRead(c) THEN {r.resp, ZeroValue} ELSE {r.resp}) :
                 response' = [response EXCEPT ![c] = v]
           /\ seen' = [d \in Conns |->
                         IF d # c /\ seen[d] # {}
                         THEN seen[d] \cup {Lookup(r.cache, cmd[d].Array[2].Bulk)}
                         ELSE seen[d]]
    /\ rw' = [writer |-> IF rw.writer = c THEN "none" ELSE rw.writer,
              readers |-> rw.readers \ {c}]
    /\ pc' = [pc EXCEPT ![c] = "respond"]
    /\ UNCHANGED <<phase, aofFile, mu, cmd, sent, syncPc, steps, appendFailed, accepted,
                   got, failedOn, fileOff>>
    /\ UNCHANGED <<handlerVars, codecVars, streamVars, replayVars, fileOpen>>

\* A worker whose responses reach the client newest first.
RespondNewestFirst(c) ==
    /\ phase = "serving"
    /\ pc[c] = "respond"
    /\ sent' = [sent EXCEPT ![c] = <<response[c]>> \o @]
    /\ cmd' = [cmd EXCEPT ![c] = ZeroValue]
    /\ response' = [response EXCEPT ![c] = ZeroValue]
    /\ seen' = [seen EXCEPT ![c] = {}]
    /\ failedOn' = IF failedOn = c THEN "none" ELSE failedOn
    /\ pc' = [pc EXCEPT ![c] = "read"]
    /\ UNCHANGED <<phase, aofFile, mu, cache, rw, syncPc, steps, appendFailed, accepted,
                   got, fileOff>>
    /\ UNCHANGED <<handlerVars, codecVars, streamVars, replayVars, fileOpen>>

\* handleConnection: rw.Write(response); the iteration's cmd and response
\* go out of scope and the loop reads again.
Respond(c) ==
    /\ phase = "serving"
    /\ pc[c] = "respond"
    /\ sent' = [sent EXCEPT ![c] = Append(@, response[c])]
    /\ cmd' = [cmd EXCEPT ![c] = ZeroValue]
    /\ response' = [response EXCEPT ![c] = ZeroValue]
    /\ seen' = [seen EXCEPT ![c] = {}]
    /\ failedOn' = IF failedOn = c THEN "none" ELSE failedOn
    /\ pc' = [pc EXCEPT ![c] = "read"]
    /\ UNCHANGED <<phase, aofFile, mu, cache, rw, syncPc, steps, appendFailed, accepted,
                   got, fileOff>>
    /\ UNCHANGED <<handlerVars, codecVars, streamVars, replayVars, fileOpen>>

\* Aof.sync: a.mu.Lock().
SyncLock ==
    /\ phase = "serving"
    /\ syncPc = "lock"
    /\ mu = "free"
    /\ mu' = "sync"
    /\ syncPc' = "flush"
    /\ UNCHANGED <<phase, aofFile, cache, rw, pc, cmd, response, sent, steps,
                   appendFailed, accepted>>
    /\ UNCHANGED <<handlerVars, codecVars, streamVars, replayVars, fileOpen, seen, got, failedOn, fileOff>>

\* Aof.sync without its for loop: one flush, then the goroutine returns.
SyncFlushOnce ==
    /\ phase = "serving"
    /\ syncPc = "flush"
    /\ mu' = "free"
    /\ syncPc' = "off"
    /\ UNCHANGED <<phase, aofFile, cache, rw, pc, cmd, response, sent, steps,
                   appendFailed, accepted>>
    /\ UNCHANGED <<handlerVars, codecVars, streamVars, replayVars, fileOpen, seen, got, failedOn, fileOff>>

\* Aof.sync: a.file.Sync(), a.mu.Unlock(), time.Sleep.
SyncFlush ==
    /\ phase = "serving"
    /\ syncPc = "flush"
    /\ mu' = "free"
    /\ syncPc' = "lock"
    /\ UNCHANGED <<phase, aofFile, cache, rw, pc, cmd, response, sent, steps,
                   appendFailed, accepted>>
    /\ UNCHANGED <<handlerVars, codecVars, streamVars, replayVars, fileOpen, seen, got, failedOn, fileOff>>

\* Aof.Close: a.mu.Lock(), a.file.Close(), the deferred a.mu.Unlock().  The
\* sync goroutine and the workers are not told; on a file that is closed
\* already file.Close returns an error and changes nothing.
AofClose ==
    /\ phase = "serving"
    /\ mu = "free"
    /\ fileOpen' = FALSE
    /\ UNCHANGED <<phase, aofFile, mu, cache, rw, pc, cmd, response, sent, syncPc, steps,
                   appendFailed, accepted>>
    /\ UNCHANGED <<handlerVars, codecVars, streamVars, replayVars, seen, got, failedOn, fileOff>>

\* The process is stopped, or has ended, and is started again on the same file.
Restart ==
    /\ phase \in {"serving", "dead"}
    /\ steps < MaxSteps
    /\ steps' = steps + 1
    /\ phase' = "boot"
    /\ ProcessGone
    /\ UNCHANGED <<aofFile, appendFailed>>
    /\ UNCHANGED <<handlerVars, codecVars, streamVars, replayVars>>

SpecInit ==
    /\ ServerInit
    /\ HandlerInit
    /\ CodecIdle

Next ==
    \/ NewAof
    \/ NewAofOpenError
    \/ \E c \in Conns : Accept(c)
    \/ \E c \in Conns : Recv(c)
    \/ \E c \in Conns : RecvEOF(c)
    \/ \E c \in Conns : AofLock(c)
    \/ \E c \in Conns : AofWrite(c)
    \/ \E c \in Conns : Dispatch(c)
    \/ \E c \in Conns : HandlerRun(c)
    \/ \E c \in Conns : Respond(c)
    \/ SyncLock
    \/ SyncFlush
    \/ Restart

Spec == SpecInit /\ [][Next]_vars

\* One run of the process with one client, in which Aof.Close is called.
CloseNext ==
    \/ NewAof
    \/ Accept("c1")
    \/ Recv("c1")
    \/ AofLock("c1")
    \/ AofWrite("c1")
    \/ Dispatch("c1")
    \/ HandlerRun("c1")
    \/ Respond("c1")
    \/ SyncLock
    \/ SyncFlush
    \/ AofClose

CloseSpec == SpecInit /\ [][CloseNext]_vars

\* One run of the process, from its start to its end, with both workers.
RunNext ==
    \/ NewAof
    \/ \E c \in Conns : Accept(c)
    \/ \E c \in Conns : Recv(c)
    \/ \E c \in Conns : AofLock(c)
    \/ \E c \in Conns : AofWrite(c)
    \/ \E c \in Conns : Dispatch(c)
    \/ \E c \in Conns : HandlerRun(c)
    \/ \E c \in Conns : Respond(c)
    \/ SyncLock
    \/ SyncFlush

RunSpec == SpecInit /\ [][RunNext]_vars

\* The process under fair scheduling.  A goroutine that can take a step takes
\* it; sync.Mutex hands the mutex to a goroutine that has waited (its
\* starvation mode), so the sync goroutine, which waits again and again while
\* workers take and release the mutex, gets it: strong fairness of SyncLock.
SyncFairSpec ==
    /\ RunSpec
    /\ SF_vars(SyncLock)
    /\ WF_vars(SyncFlush)
    /\ WF_vars(\E c \in Conns : AofWrite(c))


----------------------------------------------------------------------------
(* server/server.go: what handleConnection does with one buffer on the     *)
(* cache c, as a function: the response written, the cache afterwards and  *)
(* the bytes handed to the file (none when the command is refused before   *)
(* aof.Write).  st = "panic" when the decoder panics.                      *)

\* handleConnection with the registry looked up under the name as it was
\* written, without strings.ToUpper.
ServeExactName(buf, c) ==
    LET r == Read(buf, 0)
    IN  IF r.st = "panic"
        THEN [st |-> "panic", resp |-> ZeroValue, cache |-> c, record |-> <<>>]
        ELSE IF r.st = "err" \/ Len(r.val.Array) = 0
        THEN [st |-> "ok", resp |-> NewError(ErrInvalidCommand), cache |-> c,
              record |-> <<>>]
        ELSE IF r.val.Array[1].Bulk \notin HandlerNames
        THEN [st |-> "ok", resp |-> NewError(ErrUnknownCommand), cache |-> c,
              record |-> <<>>]
        ELSE LET h == Handlers(r.val.Array[1].Bulk, Tail(r.val.Array), c)
             IN  [st |-> "ok", resp |-> h.resp, cache |-> h.cache,
                  record |-> Marshal(r.val)]

Serve(buf, c) ==
    LET r == Read(buf, 0)
    IN  IF r.st = "panic"
        THEN [st |-> "panic", resp |-> ZeroValue, cache |-> c, record |-> <<>>]
        ELSE IF r.st = "err" \/ Len(r.val.Array) = 0
        THEN [st |-> "ok", resp |-> NewError(ErrInvalidCommand), cache |-> c,
              record |-> <<>>]
        ELSE IF ToUpper(r.val.Array[1].Bulk) \notin HandlerNames
        THEN [st |-> "ok", resp |-> NewError(ErrUnknownCommand), cache |-> c,
              record |-> <<>>]
        ELSE LET h == Handlers(ToUpper(r.val.Array[1].Bulk), Tail(r.val.Array), c)
             IN  [st |-> "ok", resp |-> h.resp, cache |-> h.cache,
                  record |-> Marshal(r.val)]

\* The cache after the buffers bufs have been served one after another.
RECURSIVE Dispatched(_, _)
Dispatched(bufs, c) ==
    IF bufs = <<>> THEN c
    ELSE Dispatched(Tail(bufs), Serve(Head(bufs), c).cache)

----------------------------------------------------------------------------
(* server/server.go: one connection and the byte stream of its client.     *)
(* The client writes whole commands; conn.Read returns the bytes that have *)
(* arrived so far, cut wherever the transport cut them.                    *)

StreamCommands ==
    { Bulks(<<SET, <<"k">>, <<"a">>>>),
      Bulks(<<GET, <<"k">>>>),
      Bulks(<<DEL, <<"k">>>>),
      Bulks(<<PING>>) }

\* The process has replayed an empty file and accepted the connection c1.
StreamInit ==
    /\ phase = "serving"
    /\ aofFile = <<>>
    /\ mu = "free"
    /\ cache = EmptyCache
    /\ rw = NoLock
    /\ pc = [c \in Conns |-> IF c = "c1" THEN "read" ELSE "closed"]
    /\ cmd = [c \in Conns |-> ZeroValue]
    /\ response = [c \in Conns |-> ZeroValue]
    /\ sent = [c \in Conns |-> <<>>]
    /\ syncPc = "lock"
    /\ steps = 0
    /\ appendFailed = FALSE
    /\ accepted = {"c1"}
    /\ seen = [c \in Conns |-> {}]
    /\ got = [c \in Conns |-> <<>>]
    /\ failedOn = "none"
    /\ fileOff = 0
    /\ fileOpen = TRUE
    /\ stream = <<>>
    /\ asked = 0
    /\ connEnd = "none"
    /\ records = <<>>
    /\ HandlerInit
    /\ CodecIdle

\* The client writes one more command to the connection.
ClientSend ==
    /\ asked < MaxCmds
    /\ connEnd = "none"
    /\ \E c \in StreamCommands : stream' = stream \o Marshal(NewArray(c))
    /\ asked' = asked + 1
    /\ UNCHANGED <<serverVars, handlerVars, codecVars, replayVars, connEnd>>

\* The client closes the connection: conn.Read returns io.EOF once the
\* bytes written before have been read.
ClientClose ==
    /\ connEnd = "none"
    /\ connEnd' = "eof"
    /\ UNCHANGED <<serverVars, handlerVars, codecVars, replayVars, stream, asked>>

\* The stream fails (the peer resets the connection): the bytes not yet
\* read are lost and every conn.Read from now on returns an error that is
\* not io.EOF.
StreamFails ==
    /\ connEnd = "none"
    /\ connEnd' = "err"
    /\ stream' = <<>>
    /\ UNCHANGED <<serverVars, handlerVars, codecVars, replayVars, asked>>

\* handleConnection, one iteration of the loop on c1: conn.Read returns the
\* first n bytes that have arrived, the first value of buf is decoded, and
\* the command is answered (appended, executed, answered) before the next
\* conn.Read.
ConnRead ==
    /\ phase = "serving"
    /\ pc["c1"] = "read"
    /\ stream # <<>>
    /\ connEnd # "err"
    /\ \E n \in 1..Len(stream) :
          LET r == Serve(SubSeq(stream, 1, n), cache)
          IN  /\ stream' = SubSeq(stream, n + 1, Len(stream))
              /\ IF r.st = "panic"
                 THEN /\ phase' = "dead"
                      /\ ProcessGone
                      /\ UNCHANGED <<aofFile, appendFailed>>
                 ELSE /\ UNCHANGED <<phase, mu, rw, pc, cmd, response, syncPc, accepted,
                                     seen, got, failedOn, fileOpen>>
                      /\ cache' = r.cache
                      /\ sent' = [sent EXCEPT !["c1"] = Append(@, r.resp)]
                      /\ IF r.record = <<>>
                         THEN UNCHANGED <<aofFile, appendFailed, fileOff>>
                         ELSE \/ /\ aofFile' = fileWrite(aofFile, fileOff, r.record)
                                 /\ fileOff' = fileOff + Len(r.record)
                                 /\ UNCHANGED appendFailed
                              \/ /\ ~appendFailed
                                 /\ \E p \in ShortWrites(r.record) :
                                       /\ aofFile' = fileWrite(aofFile, fileOff, p)
                                       /\ fileOff' = fileOff + Len(p)
                                 /\ appendFailed' = TRUE
    /\ UNCHANGED <<steps, asked, connEnd>>
    /\ UNCHANGED <<handlerVars, codecVars, replayVars>>

\* handleConnection: conn.Read returns io.EOF; the worker returns and the
\* deferred conn.Close() runs.
ConnReadEOF ==
    /\ phase = "serving"
    /\ pc["c1"] = "read"
    /\ stream = <<>>
    /\ connEnd = "eof"
    /\ pc' = [pc EXCEPT !["c1"] = "closed"]
    /\ UNCHANGED <<phase, aofFile, mu, cache, rw, cmd, response, sent, syncPc, steps,
                   appendFailed, accepted, seen, got, failedOn, fileOff>>
    /\ UNCHANGED <<handlerVars, codecVars, streamVars, replayVars, fileOpen>>

\* handleConnection: conn.Read returns an error that is not io.EOF; it is
\* logged and `continue` takes the worker back to conn.Read.  Nothing the
\* worker holds has changed.
ConnReadError ==
    /\ phase = "serving"
    /\ pc["c1"] = "read"
    /\ connEnd = "err"
    /\ UNCHANGED vars

StreamNext == ClientSend \/ ClientClose \/ StreamFails \/ ConnRead \/ ConnReadEOF \/ ConnReadError

StreamSpec == StreamInit /\ [][StreamNext]_vars

\* The worker goroutine is scheduled: a step it can take is taken.
StreamFairSpec ==
    /\ StreamSpec
    /\ WF_vars(ConnRead)
    /\ WF_vars(ConnReadEOF)
    /\ WF_vars(ConnReadError)

----------------------------------------------------------------------------
(* persistence/aof.go: the process started on a file written earlier: a    *)
(* sequence of encoded commands, and possibly the first bytes of one more  *)
(* that was being written when the earlier process ended.                  *)

ReplayCommands ==
    { Bulks(<<SET, <<"k">>, <<"a">>>>),
      Bulks(<<SET, <<"k">>, <<"b">>>>),
      Bulks(<<DEL, <<"k">>>>),
      Bulks(<<GET, <<"k">>>>),
      Bulks(<<<<"d", "e", "l">>, <<"k">>>>),
      Bulks(<<<<"S", "e", "t">>, <<"k">>, <<"a">>>>),
      Bulks(<<<<"F", "O", "O">>>>) }

RecordBytes == {Marshal(NewArray(c)) : c \in ReplayCommands} \cup {SetAbsentKey}

RecordLists == UNION {[1..n -> RecordBytes] : n \in 0..MaxRecords}

\* The proper prefixes of one record, the empty one included.
TornPrefixes ==
    LET whole == Marshal(NewArray(Bulks(<<SET, <<"k">>, <<"a">>>>)))
    IN  {SubSeq(whole, 1, n) : n \in 0..(Len(whole) - 1)}

RECURSIVE Flatten(_)
Flatten(seqs) == IF seqs = <<>> THEN <<>> ELSE Head(seqs) \o Flatten(Tail(seqs))

ReplayInit ==
    /\ phase = "boot"
    /\ records \in RecordLists
    /\ \E torn \in TornPrefixes : aofFile = Flatten(records) \o torn
    /\ mu = "free"
    /\ cache = EmptyCache
    /\ rw = NoLock
    /\ pc = [c \in Conns |-> "closed"]
    /\ cmd = [c \in Conns |-> ZeroValue]
    /\ response = [c \in Conns |-> ZeroValue]
    /\ sent = [c \in Conns |-> <<>>]
    /\ syncPc = "off"
    /\ steps = 0
    /\ appendFailed = FALSE
    /\ accepted = {}
    /\ seen = [c \in Conns |-> {}]
    /\ got = [c \in Conns |-> <<>>]
    /\ failedOn = "none"
    /\ fileOff = 0
    /\ fileOpen = FALSE
    /\ stream = <<>>
    /\ asked = 0
    /\ connEnd = "none"
    /\ HandlerInit
    /\ CodecIdle

ReplayNext == NewAof \/ Restart

ReplaySpec == ReplayInit /\ [][ReplayNext]_vars

----------------------------------------------------------------------------
(* persistence/aof.go: the process started on a file that holds, between   *)
(* commands, values that are not commands and commands of no handler.      *)

MixedRecordBytes ==
    { Marshal(NewArray(Bulks(<<SET, <<"k">>, <<"a">>>>))),
      Marshal(NewArray(Bulks(<<<<"d", "e", "l">>, <<"k">>>>))),
      Marshal(NewArray(Bulks(<<<<"F", "O", "O">>>>))),
      Marshal(NewArray(<<NewInteger(7), NewBulkString(<<"k">>)>>)),
      <<RespString, "O", "K", CR, LF>>,
      <<RespInteger, "7", CR, LF>>,
      NullBulkBytes,
      EmptyArrayBytes }

MixedInit ==
    /\ phase = "boot"
    /\ records \in UNION {[1..n -> MixedRecordBytes] : n \in 0..MaxRecords}
    /\ aofFile = Flatten(records)
    /\ mu = "free"
    /\ cache = EmptyCache
    /\ rw = NoLock
    /\ pc = [c \in Conns |-> "closed"]
    /\ cmd = [c \in Conns |-> ZeroValue]
    /\ response = [c \in Conns |-> ZeroValue]
    /\ sent = [c \in Conns |-> <<>>]
    /\ syncPc = "off"
    /\ steps = 0
    /\ appendFailed = FALSE
    /\ accepted = {}
    /\ seen = [c \in Conns |-> {}]
    /\ got = [c \in Conns |-> <<>>]
    /\ failedOn = "none"
    /\ fileOff = 0
    /\ fileOpen = FALSE
    /\ stream = <<>>
    /\ asked = 0
    /\ connEnd = "none"
    /\ HandlerInit
    /\ CodecIdle

MixedSpec == MixedInit /\ [][ReplayNext]_vars

----------------------------------------------------------------------------
(* cmd/redis-lite/main.go: the process started on a file an earlier process *)
(* has written, with one client.                                           *)

PriorRecords ==
    { <<>>,
      <<Marshal(NewArray(Bulks(<<SET, <<"k">>, <<"a">>>>)))>>,
      <<Marshal(NewArray(Bulks(<<SET, <<"k">>, <<"a">>>>))),
        Marshal(NewArray(Bulks(<<DEL, <<"k">>>>)))>> }

LogInit ==
    /\ phase = "boot"
    /\ records \in PriorRecords
    /\ aofFile = Flatten(records)
    /\ mu = "free"
    /\ cache = EmptyCache
    /\ rw = NoLock
    /\ pc = [c \in Conns |-> "closed"]
    /\ cmd = [c \in Conns |-> ZeroValue]
    /\ response = [c \in Conns |-> ZeroValue]
    /\ sent = [c \in Conns |-> <<>>]
    /\ syncPc = "off"
    /\ steps = 0
    /\ appendFailed = FALSE
    /\ accepted = {}
    /\ seen = [c \in Conns |-> {}]
    /\ got = [c \in Conns |-> <<>>]
    /\ failedOn = "none"
    /\ fileOff = OpenOffset(aofFile)
    /\ fileOpen = FALSE
    /\ stream = <<>>
    /\ asked = 0
    /\ connEnd = "none"
    /\ HandlerInit
    /\ CodecIdle

LogNext ==
    \/ NewAof
    \/ NewAofOpenError
    \/ Accept("c1")
    \/ Recv("c1")
    \/ RecvEOF("c1")
    \/ AofLock("c1")
    \/ AofWrite("c1")
    \/ Dispatch("c1")
    \/ HandlerRun("c1")
    \/ Respond("c1")
    \/ SyncLock
    \/ SyncFlush
    \/ Restart

LogSpec == LogInit /\ [][LogNext]_vars

\* The process started on a file written earlier, with both workers, up to
\* its end: the steps of main and of the workers.
LinNext ==
    \/ NewAof
    \/ \E c \in Conns : Accept(c)
    \/ \E c \in Conns : Recv(c)
    \/ \E c \in Conns : AofLock(c)
    \/ \E c \in Conns : AofWrite(c)
    \/ \E c \in Conns : Dispatch(c)
    \/ \E c \in Conns : HandlerRun(c)
    \/ \E c \in Conns : Respond(c)

LinSpec == LogInit /\ [][LinNext]_vars


----------------------------------------------------------------------------
(* Properties of the process (Spec).                                       *)

\* No connection goroutine is inside a command.
Quiescent == \A c \in Conns : pc[c] \in {"closed", "read"}

\* The keyspace a restart on the present file would start with.
Replayed == AofRead(aofFile)

\* The records of the file, as replay decodes them one after another.
RECURSIVE recordsFrom(_, _)
recordsFrom(data, curr) ==
    LET at == skipCrLf(data, curr)
    IN  IF at >= Len(data) THEN <<>>
        ELSE LET r == Read(data, at)
             IN  IF r.st # "ok" THEN <<>>
                 ELSE <<r.val>> \o recordsFrom(data, r.curr)

LogRecords == recordsFrom(aofFile, 0)

IsCommand(v) == v.Type = RespArray /\ Len(v.Array) > 0

\* C1: after any sequence of PING/GET/SET/DEL commands processed by a single
\* connection worker, every append having succeeded, a restart (replay of
\* the same file into an empty keyspace) succeeds and yields the keyspace
\* the process had before the restart.
C1_RestartEquivalence ==
    (/\ phase = "serving"
     /\ Cardinality(accepted) <= 1
     /\ ~appendFailed
     /\ Quiescent)
    => Replayed = [st |-> "ok", cache |-> cache]

\* C2: whatever the interleaving of the connection workers, replaying the
\* file from an empty keyspace yields the keyspace in memory: the records
\* are in the file in the order their mutations were applied.
C2_LogOrderLinearizes ==
    (/\ phase = "serving"
     /\ ~appendFailed
     /\ Quiescent
     /\ Replayed.st = "ok")
    => Replayed.cache = cache

\* C6: the file holds records of SET and DEL only; a GET or a PING is never
\* appended.
C6_OnlyMutationsLogged ==
    \A i \in 1..Len(LogRecords) :
        IsCommand(LogRecords[i])
        => ToUpper(LogRecords[i].Array[1].Bulk) \in {SET, DEL}

\* C7: a command whose dispatch result is an error (wrong arity, unknown
\* command) is never appended to the file.
C7_OnlyAcceptedLogged ==
    \A i \in 1..Len(LogRecords) :
        IsCommand(LogRecords[i])
        => LET commandName == ToUpper(LogRecords[i].Array[1].Bulk)
           IN  /\ commandName \in HandlerNames
               /\ Handlers(commandName, Tail(LogRecords[i].Array), cache).resp.Type
                      # RespError

\* An array of bulk strings, with one element at least.
BulkArray(v) ==
    /\ v.Type = RespArray
    /\ Len(v.Array) > 0
    /\ \A i \in 1..Len(v.Array) : v.Array[i].Type = RespBulk

\* C20: only an array of bulk strings is a command.  A connection is past
\* the checks of its decoded value (on its way to the append and to the
\* handler, or through them) only with such an array: for any other shape
\* no record is appended and no handler runs.
C20_OnlyBulkArraysAreCommands ==
    \A c \in Conns : pc[c] \notin {"closed", "read"} => BulkArray(cmd[c])

\* The answers of the handlers to a command they accept, by their type.
WellFormed(v) ==
    /\ IsCommand(v)
    /\ LET name == ToUpper(v.Array[1].Bulk)
           n == Len(v.Array) - 1
       IN  \/ name = PING /\ n = 0
           \/ name = GET /\ n = 1
           \/ name = SET /\ n = 2
           \/ name = DEL /\ n >= 1

NormalAnswer(v, r) ==
    LET name == ToUpper(v.Array[1].Bulk)
    IN  /\ name = PING => r = NewSimpleString(PONG)
        /\ name = SET => r = NewSimpleString(OK)
        /\ name = GET => r.Type \in {RespBulk, RespNull}
        /\ name = DEL => r.Type = RespInteger

\* C21: a worker that has answered with an error (undecodable buffer,
\* unknown command, wrong arity) has not left its loop, and what the
\* connection holds next is taken up: a well-formed command is in progress
\* or has got the answer its handler gives.
C21_ErrorsKeepConnection ==
    \A c \in Conns :
        /\ (sent[c] # <<>> /\ sent[c][Len(sent[c])].Type = RespError) => pc[c] # "closed"
        /\ \A i \in 2..Len(got[c]) :
              (i - 1 <= Len(sent[c]) /\ sent[c][i - 1].Type = RespError)
              => /\ i <= Len(sent[c]) \/ pc[c] \notin {"closed", "read"}
                 /\ (i <= Len(sent[c]) /\ WellFormed(got[c][i]))
                        => NormalAnswer(got[c][i], sent[c][i])

\* C21 witness: SET with one argument was answered with an error, and the
\* SET k a that followed on the connection with OK.
C21_Witness ==
    \E c \in Conns :
        /\ pc[c] = "read"
        /\ sent[c] = <<NewError(ErrWrongArgs(SET)), NewSimpleString(OK)>>
        /\ got[c][2] = NewArray(Bulks(<<SET, <<"k">>, <<"a">>>>))
        /\ cache = Put(EmptyCache, <<"k">>, NewBulkString(<<"a">>))

\* C22: the process serves only after a replay without error; a process
\* whose start has failed (the file not opened, or the replay in error) has
\* accepted no connection and has no sync goroutine.
C22_StartupFatal ==
    /\ [][(phase = "boot" /\ phase' = "serving") => AofRead(aofFile).st = "ok"]_vars
    /\ [][(phase = "boot" /\ AofRead(aofFile).st # "ok") => phase' \in {"boot", "dead"}]_vars
    /\ [](phase = "dead" =>
            (accepted = {} /\ syncPc = "off" /\ \A c \in Conns : pc[c] = "closed"))

\* C22 witness: the process has ended at its start on a file whose replay
\* returns an error.
C22_Witness ==
    /\ phase = "dead"
    /\ aofFile # <<>>
    /\ AofRead(aofFile).st = "err"

\* C23: when the file.Write of a command fails, the worker goes on to the
\* handler with the same command and cache; the handler's response and its
\* effect on the cache are what the handler gives on the cache it finds, as
\* after a write that succeeded; the response is written and the worker
\* reads again.
C23_AppendFailureOnlyDegrades ==
    /\ [][\A c \in Conns :
            (failedOn # c /\ failedOn' = c)
            => (phase' = "serving" /\ pc'[c] = "handler" /\ cmd'[c] = cmd[c]
                /\ cache' = cache)]_vars
    /\ [][\A c \in Conns :
            (failedOn = c /\ pc[c] \in {"handler", "locked"} /\ pc'[c] = "respond")
            => LET r == Handlers(CommandName(c), CommandArgs(c), cache)
               IN  response'[c] = r.resp /\ cache' = r.cache]_vars
    /\ [][\A c \in Conns :
            (failedOn = c /\ pc[c] = "respond" /\ pc'[c] # "respond" /\ phase' = "serving")
            => (pc'[c] = "read" /\ sent'[c] = Append(sent[c], response[c]))]_vars
    /\ [](\A c \in Conns : failedOn = c => pc[c] \in {"handler", "locked", "respond"})

\* C23 witness: the write of SET k a has failed with nothing written, and
\* the worker holds OK with k mapped to a.
C23_Witness ==
    \E c \in Conns :
        /\ failedOn = c
        /\ pc[c] = "respond"
        /\ aofFile = <<>>
        /\ response[c] = NewSimpleString(OK)
        /\ cache = Put(EmptyCache, <<"k">>, NewBulkString(<<"a">>))

\* A worker is in the section of set or del under cacheLock.Lock(), or in
\* the section of get under cacheLock.RLock().
InWrite(c) == pc[c] = "locked" /\ CommandName(c) \in {SET, DEL}
InRead(c) == pc[c] = "locked" /\ CommandName(c) = GET

\* C25: while a SET or a DEL is in its section under the lock, no other
\* SET, DEL or GET is in one.
C25_ReadersWriterExclusion ==
    \A c, d \in Conns : (c # d /\ InWrite(c)) => ~(InWrite(d) \/ InRead(d))

\* C25 witness: two GETs are in their sections at the same time.
C25_Witness == \A c \in Conns : InRead(c)

\* The encodings Aof.Write can be handed: Marshal of the commands that pass
\* the checks of handleConnection.
LogEncodings ==
    { Marshal(Read(b, 0).val) :
        b \in {i \in Inputs : LET r == Read(i, 0)
                               IN  /\ r.st = "ok"
                                   /\ Len(r.val.Array) > 0
                                   /\ ToUpper(r.val.Array[1].Bulk) \in HandlerNames} }

IsPrefix(p, q) == Len(p) <= Len(q) /\ SubSeq(q, 1, Len(p)) = p

\* data is a concatenation of complete encodings.
RECURSIVE WholeRecords(_)
WholeRecords(data) ==
    \/ data = <<>>
    \/ \E e \in LogEncodings :
          /\ IsPrefix(e, data)
          /\ WholeRecords(SubSeq(data, Len(e) + 1, Len(data)))

\* At most one goroutine is between Lock and Unlock of Aof.mu: a worker in
\* file.Write or the sync goroutine in file.Sync.
OneInFile ==
    Cardinality({c \in Conns : pc[c] = "aofWrite"}) + (IF syncPc = "flush" THEN 1 ELSE 0) <= 1

AnswerFits(v, r) ==
    IF v = ZeroValue THEN r = NewError(ErrInvalidCommand)
    ELSE IF ToUpper(v.Array[1].Bulk) \notin HandlerNames THEN r = NewError(ErrUnknownCommand)
    ELSE IF WellFormed(v) THEN NormalAnswer(v, r)
    ELSE r = NewError(ErrWrongArgs(ToUpper(v.Array[1].Bulk)))

\* The encodings of the commands of c that have been through Aof.Write, in
\* the order the worker got them.
LoggedOf(c) ==
    LET done == IF pc[c] \in {"aofLock", "aofWrite"} THEN Len(got[c]) - 1 ELSE Len(got[c])
        known == SelectSeq(SubSeq(got[c], 1, done),
                           LAMBDA v : v # ZeroValue /\ ToUpper(v.Array[1].Bulk) \in HandlerNames)
    IN  [i \in 1..Len(known) |-> Marshal(known[i])]

\* data holds the encodings a, one after another in their order, with
\* whatever other records before, between and behind them.
RECURSIVE HoldsInOrder(_, _)
HoldsInOrder(data, a) ==
    \/ a = <<>>
    \/ \E i \in 0..(Len(data) - Len(a[1])) :
          /\ data[i + 1] = a[1][1]
          /\ SubSeq(data, i + 1, i + Len(a[1])) = a[1]
          /\ HoldsInOrder(SubSeq(data, i + Len(a[1]) + 1, Len(data)), Tail(a))

\* C28: on one connection the commands go through the worker one after
\* another in the order they were received.  The worker holds the last
\* command it got and nothing else; every earlier one has its response, and
\* the responses are in the order of the commands; the handler runs for the
\* command in hand; and, no write having failed, the records of the
\* connection are in the file in the order of its commands.
C28_ConnectionOrderKept ==
    /\ [](\A c \in Conns :
            /\ pc[c] \in {"closed", "read"} => Len(sent[c]) = Len(got[c])
            /\ pc[c] \notin {"closed", "read"} =>
                  (Len(sent[c]) = Len(got[c]) - 1 /\ cmd[c] = got[c][Len(got[c])])
            /\ \A i \in 1..Len(sent[c]) :
                  i <= Len(got[c]) /\ AnswerFits(got[c][i], sent[c][i]))
    /\ [](~appendFailed => \A c \in Conns : HoldsInOrder(aofFile, LoggedOf(c)))
    /\ [][\A c \in Conns :
            (pc[c] \in {"handler", "locked"} /\ pc'[c] = "respond")
            => cache' = Handlers(ToUpper(got[c][Len(got[c])].Array[1].Bulk),
                                 Tail(got[c][Len(got[c])].Array), cache).cache]_vars

\* C28 witness: a connection has sent SET k a and then DEL k; the file
\* holds the two records in that order, the responses are OK and 1, and k
\* is absent.
C28_Witness ==
    \E c \in Conns :
        /\ pc[c] = "read"
        /\ got[c] = <<NewArray(Bulks(<<SET, <<"k">>, <<"a">>>>)),
                      NewArray(Bulks(<<DEL, <<"k">>>>))>>
        /\ sent[c] = <<NewSimpleString(OK), NewInteger(1)>>
        /\ aofFile = Marshal(got[c][1]) \o Marshal(got[c][2])
        /\ cache = EmptyCache

\* C29: for a command that is logged the handler has run before the record
\* is appended, and the response is written last: a worker in file.Write
\* holds the handler's response already, and a worker about to write the
\* response has been through Aof.Write.
C29_DispatchAppendRespond ==
    \A c \in Conns :
        /\ pc[c] = "aofWrite" => response[c] # ZeroValue
        /\ pc[c] = "respond" =>
              (failedOn = c \/ HoldsInOrder(aofFile, <<Marshal(cmd[c])>>))

Flushes == syncPc = "flush" /\ syncPc' = "lock"
Appends == \E c \in Conns : pc[c] = "aofWrite" /\ pc'[c] = "handler"

\* C32: once Aof.Close has closed the file, the sync goroutine calls
\* file.Sync on it no more and no worker calls file.Write on it.
C32_NoUseAfterClose ==
    [][(phase = "serving" /\ ~fileOpen) => (~Flushes /\ ~Appends)]_vars

\* C36: whatever commands the workers have accepted and appended, every
\* append having succeeded, the replay of the file completes without error.
C36_OwnLogReplayable ==
    ~appendFailed => AofRead(aofFile).st = "ok"

\* Who holds what: the mutex of the file is held by a worker only inside
\* Aof.Write and by the sync goroutine only around file.Sync; cacheLock is
\* held by a worker only inside its handler; a worker that holds or waits
\* for one of the two holds nothing of the other.
HoldsCacheLock(c) == rw.writer = c \/ c \in rw.readers
LockDiscipline ==
    /\ \A c \in Conns :
          /\ mu = c <=> pc[c] = "aofWrite"
          /\ HoldsCacheLock(c) <=> pc[c] = "locked"
          /\ pc[c] \in {"aofLock", "aofWrite"} => ~HoldsCacheLock(c)
          /\ pc[c] \in {"handler", "locked"} => mu # c
    /\ mu = "sync" <=> syncPc = "flush"
    /\ phase # "serving" => (mu = "free" /\ rw = NoLock)

\* A goroutine that waits for a lock waits for a goroutine that can take
\* its next step, the one that releases the lock.
NoneStuck ==
    /\ \A c \in Conns :
          (phase = "serving" /\ pc[c] = "aofLock" /\ mu # "free") =>
              IF mu = "sync" THEN ENABLED SyncFlush ELSE ENABLED AofWrite(mu)
    /\ (phase = "serving" /\ syncPc = "lock" /\ mu # "free") => ENABLED AofWrite(mu)
    /\ \A c \in Conns :
          (phase = "serving" /\ pc[c] = "handler" /\ ~ENABLED Dispatch(c)) =>
              \E d \in Conns \ {c} : HoldsCacheLock(d) /\ ENABLED HandlerRun(d)

\* A goroutine that holds a lock can take its next step, and that step
\* gives the lock back.
HoldersCanGoOn ==
    /\ mu = "sync" => ENABLED SyncFlush
    /\ \A c \in Conns :
          /\ mu = c => ENABLED AofWrite(c)
          /\ HoldsCacheLock(c) => ENABLED HandlerRun(c)
ReleasedByNextStep ==
    /\ (mu = "sync" /\ syncPc' # syncPc) => mu' # "sync"
    /\ \A c \in Conns :
          /\ (mu = c /\ pc'[c] # pc[c]) => mu' # c
          /\ (HoldsCacheLock(c) /\ pc'[c] # pc[c]) => ~HoldsCacheLock(c)'

\* C38: the locks are held as LockDiscipline says (a worker never holds
\* one of the two while it holds or waits for the other), nobody waits for
\* a goroutine that cannot go on, and the next step of every goroutine that
\* holds a lock is enabled and releases it: no state is a deadlock and
\* whatever was acquired is released.
C38_DeadlockFree ==
    /\ [](LockDiscipline /\ NoneStuck /\ HoldersCanGoOn)
    /\ [][ReleasedByNextStep]_vars

\* C38 witness: c1 is inside its handler with cacheLock taken for writing,
\* c2 waits for cacheLock with its record appended, and the sync goroutine
\* holds the mutex of the file.
C38_Witness ==
    /\ phase = "serving"
    /\ pc["c1"] = "locked" /\ rw.writer = "c1"
    /\ pc["c2"] = "handler" /\ ~ENABLED Dispatch("c2")
    /\ mu = "sync"

\* C15: a GET answers with a value the cache has held for its key since
\* the GET was read: the value before or the value after a SET that
\* overlaps it, nothing else; GETs of one key that no write overlaps all
\* answer the same value.
C15_ReadsSeeCacheValues ==
    phase = "serving" =>
        /\ \A c \in Conns :
              (pc[c] = "respond" /\ IsGet(cmd[c])) => response[c] \in seen[c]
        /\ \A c, d \in Conns :
              (/\ pc[c] = "respond" /\ IsGet(cmd[c])
               /\ pc[d] = "respond" /\ IsGet(cmd[d])
               /\ cmd[c].Array[2] = cmd[d].Array[2]
               /\ Cardinality(seen[c] \cup seen[d]) = 1)
              => response[c] = response[d]

\* C15 witness: a GET has answered with the value of a SET that was applied
\* while the GET was in progress.
C15_Witness ==
    \E c \in Conns :
        /\ pc[c] = "respond" /\ IsGet(cmd[c])
        /\ seen[c] = {NewNull, NewBulkString(<<"a">>)}
        /\ response[c] = NewBulkString(<<"a">>)

----------------------------------------------------------------------------
(* Properties of the process started on an earlier file (LogSpec).         *)

\* C27: the file only grows at its end: what it held before a step is a
\* prefix of what it holds after, also for the first file.Write after the
\* replay of a file that was not empty; and the file changes only when a
\* worker leaves file.Write, by the one encoding of the command it holds
\* (or by the first bytes of it when the write fails).
C27_AppendOnly ==
    /\ [][IsPrefix(aofFile, aofFile')]_vars
    /\ [][aofFile' # aofFile =>
            \E c \in Conns :
                /\ pc[c] = "aofWrite" /\ pc'[c] = "handler"
                /\ \/ aofFile' = aofFile \o Marshal(cmd[c])
                   \/ /\ ~appendFailed /\ appendFailed'
                      /\ \E p \in ShortWrites(Marshal(cmd[c])) : aofFile' = aofFile \o p]_vars
    /\ [][\A c \in Conns :
            (pc[c] = "aofWrite" /\ pc'[c] = "handler" /\ appendFailed' = appendFailed)
            => aofFile' = aofFile \o Marshal(cmd[c])]_vars

\* C27 witness: started on the file [SET k a], the process has replayed it
\* and appended DEL k behind it.
C27_Witness ==
    /\ phase = "serving"
    /\ records = <<Marshal(NewArray(Bulks(<<SET, <<"k">>, <<"a">>>>)))>>
    /\ steps = 1
    /\ aofFile = Flatten(records) \o Marshal(NewArray(Bulks(<<DEL, <<"k">>>>)))

\* A handler is at work for the worker c: from the call handler(args) to
\* its return.
HandlerSteps(c) ==
    /\ pc[c] \in {"handler", "locked"}
    /\ pc'[c] \in {"locked", "respond"}
    /\ pc'[c] # pc[c]

\* C34: a step of a handler, whatever the command and its arguments, leaves
\* the file and its offset as they are, at a worker's call and at replay;
\* the file changes only in the file.Write of a worker that holds the mutex.
C34_HandlersLeaveLog ==
    /\ [][\A c \in Conns : HandlerSteps(c) => (aofFile' = aofFile /\ fileOff' = fileOff)]_vars
    /\ [][(phase = "boot" /\ phase' = "serving") =>
            (cache' = AofRead(aofFile).cache /\ aofFile' = aofFile)]_vars
    /\ [][aofFile' # aofFile =>
            \E c \in Conns : pc[c] = "aofWrite" /\ mu = c /\ pc'[c] = "handler"]_vars

\* C34 witness: started on [SET k a, DEL k], which the replay has executed,
\* the worker has appended SET k a and the set handler has put the value in
\* the map; the file holds the three records.
C34_Witness ==
    /\ phase = "serving"
    /\ records = <<Marshal(NewArray(Bulks(<<SET, <<"k">>, <<"a">>>>))),
                   Marshal(NewArray(Bulks(<<DEL, <<"k">>>>)))>>
    /\ pc["c1"] = "respond"
    /\ response["c1"] = NewSimpleString(<<"O", "K">>)
    /\ cache = Put(EmptyCache, <<"k">>, NewBulkString(<<"a">>))
    /\ aofFile = Flatten(records) \o Marshal(NewArray(Bulks(<<SET, <<"k">>, <<"a">>>>)))

\* C30: until the replay at the start has completed there is no worker, no
\* sync goroutine and nobody in the mutex of the file; the file and the
\* cache are touched by a worker, and the mutex taken by a worker or by the
\* sync goroutine, only in a process that has completed its replay, and the
\* replay runs in a process without workers and without sync goroutine.
C30_ReplayBeforeWriters ==
    /\ [](phase = "boot" =>
            /\ \A c \in Conns : pc[c] = "closed"
            /\ accepted = {}
            /\ syncPc = "off"
            /\ mu = "free"
            /\ rw = NoLock)
    /\ [][(phase = "boot" /\ phase' # "boot") =>
            (aofFile' = aofFile /\ pc' = pc /\ mu' = mu
             /\ (phase' = "serving" => cache' = AofRead(aofFile).cache))]_vars
    /\ [][(aofFile' # aofFile \/ mu' # mu \/ rw' # rw
            \/ (cache' # cache /\ phase # "boot" /\ phase' # "boot"))
           => phase = "serving"]_vars

\* C30 witness: started on the file [SET k a, DEL k], the process has
\* replayed it and its first worker has appended a record behind it.
C30_Witness ==
    /\ phase = "serving"
    /\ records = <<Marshal(NewArray(Bulks(<<SET, <<"k">>, <<"a">>>>))),
                   Marshal(NewArray(Bulks(<<DEL, <<"k">>>>)))>>
    /\ steps = 1
    /\ pc["c1"] = "handler"
    /\ Len(aofFile) > Len(Flatten(records))

----------------------------------------------------------------------------
(* Properties of one run with two workers on an earlier file (LinSpec).    *)

\* The commands of connection c whose effect has taken place, and their
\* answers: those answered, and the one whose handler has returned.
Effected(c) == Len(sent[c]) + (IF pc[c] = "respond" THEN 1 ELSE 0)
Answers(c) == IF pc[c] = "respond" THEN Append(sent[c], response[c]) ELSE sent[c]

\* What a server that takes one command at a time answers to what a
\* conn.Read held, and the map it leaves.
SeqAnswer(v, ref) ==
    IF v = ZeroValue
    THEN [resp |-> NewError(ErrInvalidCommand), cache |-> ref]
    ELSE IF ToUpper(v.Array[1].Bulk) \notin HandlerNames
    THEN [resp |-> NewError(ErrUnknownCommand), cache |-> ref]
    ELSE LET r == Handlers(ToUpper(v.Array[1].Bulk), Tail(v.Array), ref)
         IN  [resp |-> r.resp, cache |-> r.cache]

\* The map the replay of each earlier file leaves.
ReplayedCache == [r \in PriorRecords |-> AofRead(Flatten(r)).cache]

\* The commands not yet placed (done[c] of connection c are placed) can be
\* put in one order, each connection's in its own order, in which one
\* map, starting as ref, gives every answer given and ends as the cache.
RECURSIVE Linearizes(_, _)
Linearizes(done, ref) ==
    IF \A c \in Conns : done[c] = Effected(c)
    THEN ref = cache
    ELSE \E c \in Conns :
            /\ done[c] < Effected(c)
            /\ LET a == SeqAnswer(got[c][done[c] + 1], ref)
               IN  /\ a.resp = Answers(c)[done[c] + 1]
                   /\ Linearizes([done EXCEPT ![c] = @ + 1], a.cache)

\* C35: at every moment the commands executed so far by the workers have a
\* total order, consistent with the order of each connection, in which a
\* map used by one caller at a time, starting from the replayed file, gives
\* the answers the workers gave and is left as the cache is.
C35_KeyspaceLinearizable ==
    phase = "serving" => Linearizes([c \in Conns |-> 0], ReplayedCache[records])

\* C35 witness: on an empty file c1 has SET k a and c2 has GET k, both
\* in progress together, and the GET was answered with a: the order is SET,
\* GET.
C35_Witness ==
    /\ phase = "serving"
    /\ records = <<>>
    /\ got["c1"] = <<NewArray(Bulks(<<SET, <<"k">>, <<"a">>>>))>>
    /\ got["c2"] = <<NewArray(Bulks(<<GET, <<"k">>>>))>>
    /\ pc["c1"] = "respond"
    /\ pc["c2"] = "respond"
    /\ response["c2"] = NewBulkString(<<"a">>)

\* A DEL command with at least one key, and the sum of integer answers.
IsDel(v) == v.Type = RespArray /\ Len(v.Array) > 1 /\ ToUpper(v.Array[1].Bulk) = DEL

RECURSIVE SumIntegers(_)
SumIntegers(rs) == IF rs = <<>> THEN 0 ELSE Head(rs).Integer + SumIntegers(Tail(rs))

OnlyDels ==
    \A c \in Conns : \A i \in 1..Len(got[c]) : IsDel(got[c][i])

\* C37: as long as the workers of this run have executed only DEL commands,
\* the integers they have returned add up to the number of keys that were
\* in the replayed map and are no longer in the cache: each key removed is
\* counted by exactly one DEL.
C37_DelsCountEachRemovalOnce ==
    (phase = "serving" /\ OnlyDels) =>
        /\ \A c \in Conns : \A i \in 1..Effected(c) : Answers(c)[i].Type = RespInteger
        /\ SumIntegers(Answers("c1")) + SumIntegers(Answers("c2"))
              = Cardinality(DOMAIN ReplayedCache[records] \ DOMAIN cache)

\* C37 witness: started on [SET k a], both workers hold a DEL k past the
\* append at the same time; both have been executed, one has returned 1 and
\* the other 0.
C37_Witness ==
    /\ phase = "serving"
    /\ records = <<Marshal(NewArray(Bulks(<<SET, <<"k">>, <<"a">>>>)))>>
    /\ OnlyDels
    /\ pc["c1"] = "respond" /\ pc["c2"] = "respond"
    /\ response["c1"] = NewInteger(0)
    /\ response["c2"] = NewInteger(1)

----------------------------------------------------------------------------
(* Properties of one connection and its byte stream (StreamSpec).          *)

\* C12: once every byte the client wrote has been read, the worker has
\* written exactly one response per command, however conn.Read cut the
\* stream: one command per read, several in one read, or one command over
\* several reads.
C12_OneResponsePerCommand ==
    (phase = "serving" /\ stream = <<>> /\ connEnd # "err") => Len(sent["c1"]) = asked

\* C24: once the stream of a connection has ended (end of input) or failed
\* (every read returns an error), its worker returns and the connection is
\* closed.
C24_WorkerTerminates ==
    (phase = "serving" /\ connEnd \in {"eof", "err"})
        ~> (pc["c1"] = "closed" \/ phase = "dead")

----------------------------------------------------------------------------
(* Properties of replay (ReplaySpec).                                      *)

\* The bytes of the file after its complete records.
Torn == SubSeq(aofFile, Len(Flatten(records)) + 1, Len(aofFile))

\* Every record of the file names a command of the registry.
KnownRecords ==
    \A i \in 1..Len(records) :
        LET v == Read(records[i], 0).val
        IN  Len(v.Array) > 0 /\ ToUpper(v.Array[1].Bulk) \in HandlerNames

\* C13: when the file is n complete command records followed by a proper
\* prefix of one more, NewAof succeeds and the cache is what the n complete
\* records give.
C13_TornTailEndsCleanly ==
    (phase \in {"serving", "dead"} /\ Torn # <<>> /\ KnownRecords)
    => (phase = "serving" /\ cache = Dispatched(records, EmptyCache))

SetKA == Marshal(NewArray(Bulks(<<SET, <<"k">>, <<"a">>>>)))
SetKB == Marshal(NewArray(Bulks(<<SET, <<"k">>, <<"b">>>>)))
DelK  == Marshal(NewArray(Bulks(<<DEL, <<"k">>>>)))

\* C39: a startup leaves the file as it is, whatever it holds and whether
\* the replay succeeds or fails, and leaves the offset at its end; so every
\* restart without new commands finds the same bytes, and the cache after
\* each startup that succeeds is the replay of those bytes.
C39_ReplayLeavesLog ==
    /\ [][aofFile' = aofFile]_vars
    /\ [][phase = "boot" =>
            (fileOff' = Len(aofFile) /\ appendFailed' = appendFailed)]_vars
    /\ [](phase = "serving" => cache = AofRead(aofFile).cache)

\* C39 witness: the process has started for the third time on the file
\* [SET k a, SET k b], with no command in between, and holds k -> b.
C39_Witness ==
    /\ steps = 2
    /\ phase = "serving"
    /\ records = <<SetKA, SetKB>>
    /\ aofFile = SetKA \o SetKB
    /\ cache = Put(EmptyCache, <<"k">>, NewBulkString(<<"b">>))

\* C14: replaying a file of records r1..rn into an empty cache succeeds and
\* gives the cache that serving r1..rn one after another gives; in
\* particular [SET k a, SET k b, DEL k] leaves k absent and its first two
\* records leave k mapped to b.
C14_ReplayIsDispatchInOrder ==
    (phase \in {"serving", "dead"} /\ Torn = <<>> /\ KnownRecords)
    => /\ phase = "serving"
       /\ cache = Dispatched(records, EmptyCache)
       /\ records = <<SetKA, SetKB, DelK>> => <<"k">> \notin DOMAIN cache
       /\ records = <<SetKA, SetKB>> =>
             (DOMAIN cache = {<<"k">>} /\ cache[<<"k">>] = NewBulkString(<<"b">>))

\* C14 witness: the file [SET k a, DEL k, SET k b] has been replayed and k
\* is mapped to b.
C14_Witness ==
    /\ phase = "serving"
    /\ records = <<SetKA, DelK, SetKB>>
    /\ Torn = <<>>
    /\ cache[<<"k">>] = NewBulkString(<<"b">>)

\* The spellings of a name of the registry: each letter in either case.
lowerChar(ch) ==
    IF \E i \in 1..Len(UpperCase) : UpperCase[i] = ch
    THEN LowerCase[CHOOSE i \in 1..Len(UpperCase) : UpperCase[i] = ch]
    ELSE ch

Spellings(name) ==
    {s \in [1..Len(name) -> {name[i] : i \in 1..Len(name)}
                             \cup {lowerChar(name[i]) : i \in 1..Len(name)}] :
        \A i \in 1..Len(name) : s[i] \in {name[i], lowerChar(name[i])}}

\* The record rec with its command name in upper case.
UpperRecord(rec) ==
    LET v == Read(rec, 0).val
    IN  IF rec = Marshal(v)
        THEN Marshal(NewArray(<<NewBulkString(ToUpper(v.Array[1].Bulk))>>
                              \o Tail(v.Array)))
        ELSE rec

UpperRecords == [i \in 1..Len(records) |-> UpperRecord(records[i])]

\* Every spelling of every name of the registry, with arguments the handler
\* accepts: the command as spelled and the command with its name in upper
\* case.
SpelledArgs(name) ==
    IF name = PING THEN <<>>
    ELSE IF name = SET THEN <<<<"k">>, <<"b">>>>
    ELSE <<<<"k">>>>

SpelledCommands ==
    { [name |-> name, args |-> Bulks(SpelledArgs(name)),
       spelled |-> Marshal(NewArray(Bulks(<<s>> \o SpelledArgs(name)))),
       upper |-> Marshal(NewArray(Bulks(<<name>> \o SpelledArgs(name))))] :
      <<name, s>> \in
          {t \in HandlerNames \X (UNION {Spellings(n) : n \in HandlerNames}) :
              t[2] \in Spellings(t[1])} }

\* C17: a command name is matched in any upper/lower-case spelling.  The
\* replay of a file gives what the replay of the same file with every name in
\* upper case gives; and on the cache replay has left, every spelling of
\* PING, GET, SET and DEL, served live or replayed, selects the handler of
\* the upper-case name: same response, same cache.
C17_NamesMatchedInAnyCase ==
    (phase \in {"serving", "dead"} /\ Torn = <<>> /\ KnownRecords)
    => /\ LET up == AofRead(Flatten(UpperRecords))
          IN  up.st = "ok" /\ phase = "serving" /\ cache = up.cache
       /\ \A sc \in SpelledCommands :
              LET h == Handlers(sc.name, sc.args, cache)
                  served == [st |-> "ok", resp |-> h.resp, cache |-> h.cache]
                  replayed == [st |-> "ok", cache |-> h.cache]
              IN  /\ Serve(sc.spelled, cache) = served @@ [record |-> sc.spelled]
                  /\ Serve(sc.upper, cache) = served @@ [record |-> sc.upper]
                  /\ replayFrom(sc.spelled, 0, cache) = replayed
                  /\ replayFrom(sc.upper, 0, cache) = replayed

\* C17 witness: the file [Set k a, del k] has been replayed and k is absent.
C17_Witness ==
    /\ phase = "serving"
    /\ Torn = <<>>
    /\ records = << Marshal(NewArray(Bulks(<<<<"S", "e", "t">>, <<"k">>, <<"a">>>>))),
                    Marshal(NewArray(Bulks(<<<<"d", "e", "l">>, <<"k">>>>))) >>
    /\ cache = EmptyCache

----------------------------------------------------------------------------
(* Properties of replay on a file of mixed records (MixedSpec).            *)

\* Every spelling, in upper and lower case letters, of the names of the
\* registry.
KnownSpellings == UNION {Spellings(name) : name \in HandlerNames}

\* The record is a value the replay has no command in: not an array, or an
\* empty one.  The record is a command no handler is registered for.
NotACommand(rec) ==
    LET v == Read(rec, 0).val IN v.Type # RespArray \/ Len(v.Array) = 0
Unrecognized(rec) ==
    /\ ~NotACommand(rec)
    /\ Read(rec, 0).val.Array[1].Bulk \notin KnownSpellings

\* The records that are commands, in their order.
RECURSIVE CommandsOf(_)
CommandsOf(recs) ==
    IF recs = <<>> THEN <<>>
    ELSE IF NotACommand(Head(recs)) THEN CommandsOf(Tail(recs))
    ELSE <<Head(recs)>> \o CommandsOf(Tail(recs))

\* C40: a startup on a file that holds a command of no handler fails; on a
\* file without one it succeeds, and the cache is what the commands of the
\* file give, the values that are not commands and the empty arrays being
\* left out.
C40_UnknownAbortsOthersSkipped ==
    phase # "boot" =>
        IF \E i \in 1..Len(records) : Unrecognized(records[i])
        THEN phase = "dead" /\ cache = EmptyCache
        ELSE /\ phase = "serving"
             /\ cache = Dispatched(CommandsOf(records), EmptyCache)

\* C40 witness: the startup on [+OK, SET k a, FOO] has failed.
C40_Witness ==
    /\ phase = "dead"
    /\ records = <<<<RespString, "O", "K", CR, LF>>, SetKA,
                   Marshal(NewArray(Bulks(<<<<"F", "O", "O">>>>)))>>

----------------------------------------------------------------------------
(* Properties of the handlers (HandlerSpec).                               *)

\* What GET of the key text t answers on the cache c.
GetResp(c, t) == get(<<NewBulkString(t)>>, c).resp

KeyTexts == {v.Bulk : v \in ArgValues}

NamedKeys(args) == {args[i].Bulk : i \in 1..Len(args)}

\* C3: after any sequence of SET, DEL and GET calls, GET k answers the value
\* of the most recent SET k v not followed by a DEL naming k, and Null when
\* there is none; SET with two arguments answers SimpleString OK.
C3_GetReturnsLastSet ==
    /\ (hcall.name = GET /\ Len(hcall.args) = 1) =>
          hcall.resp = IF hcall.args[1].Bulk \in DOMAIN href
                       THEN href[hcall.args[1].Bulk]
                       ELSE NewNull
    /\ (hcall.name = SET /\ Len(hcall.args) = 2) =>
          hcall.resp = NewSimpleString(OK)

\* C4: DEL with one or more arguments answers Integer(n), n the number of
\* distinct named keys present just before; afterwards GET of a named key
\* answers Null and GET of any other key answers what it did before.
C4_DelCountsNamedKeys ==
    (hcall.name = DEL /\ Len(hcall.args) >= 1) =>
        /\ hcall.resp = NewInteger(Cardinality(NamedKeys(hcall.args) \cap DOMAIN hrpre))
        /\ \A t \in NamedKeys(hcall.args) : GetResp(hcache, t) = NewNull
        /\ \A t \in KeyTexts \ NamedKeys(hcall.args) : GetResp(hcache, t) = GetResp(hpre, t)

\* C16: for two keys that differ as text (in letter case or in outer white
\* space only, too), SET or DEL on the one leaves what GET of the other
\* answers unchanged.
C16_KeyIdentityExact ==
    /\ (hcall.name = SET /\ Len(hcall.args) = 2) =>
          \A t \in KeyTexts \ {hcall.args[1].Bulk} :
              GetResp(hcache, t) = GetResp(hpre, t)
    /\ (hcall.name = DEL /\ Len(hcall.args) >= 1) =>
          \A t \in KeyTexts \ NamedKeys(hcall.args) :
              GetResp(hcache, t) = GetResp(hpre, t)

\* Where the i-th of the arguments starts in their join, counted from 0.
RECURSIVE JoinOffset(_, _)
JoinOffset(args, i) ==
    IF i = 1 THEN 0 ELSE JoinOffset(args, i - 1) + Len(args[i - 1].Bulk) + 1

AllBulk(args) == \A i \in 1..Len(args) : args[i].Type = RespBulk

InvalidPingArgument ==
    <<"I", "n", "v", "a", "l", "i", "d", " ", "P", "I", "N", "G", " ",
      "a", "r", "g", "u", "m", "e", "n", "t">>

\* C19: PING with an argument that is not a bulk string answers the error
\* "Invalid PING argument", never a bulk string.
C19_PingRejectsNonBulk ==
    (hcall.name = PING /\ ~AllBulk(hcall.args)) =>
        hcall.resp = NewError(InvalidPingArgument)

\* C5: GET with other than 1 argument, SET with other than 2 and DEL with
\* none answer the wrong-number-of-arguments error of that command and
\* leave the cache as it was.
WrongArity(name, n) ==
    \/ name = GET /\ n # 1
    \/ name = SET /\ n # 2
    \/ name = DEL /\ n = 0

C5_ArityEnforced ==
    WrongArity(hcall.name, Len(hcall.args)) =>
        /\ hcall.resp = NewError(ErrWrongArgs(hcall.name))
        /\ hcache = hpre

\* C5 witness: SET with three arguments was refused on a cache that holds a key.
C5_Witness ==
    /\ hcall.name = SET /\ Len(hcall.args) = 3
    /\ hcall.resp.Type = RespError
    /\ hpre # EmptyCache
    /\ hcache = hpre

----------------------------------------------------------------------------
(* Properties of the codec (CodecSpec).                                    *)

\* C8: decoding the bytes Marshal produces for a value succeeds and gives
\* that value back.
C8_RoundTrip ==
    (cmode = "enc" /\ cpc = "done") => (cres.st = "ok" /\ cres.val = cval)

\* C11: when the buffer is the encoding of a value followed by further
\* bytes, a successful Read leaves the cursor at the first byte after the
\* encoding, for every type of value (the \r\n of a Null included).
C11_ConsumesOneValue ==
    (cmode = "enc" /\ cpc = "done" /\ cres.st = "ok")
    => cres.curr = Len(Marshal(cval))

BulkHeader == readLine(cbytes, 1)
DeclaredLength == Atoi(BulkHeader.line)
Remaining == Len(cbytes) - BulkHeader.curr
DeclaresBulk ==
    /\ cmode = "dec" /\ cpc # "start"
    /\ cbytes # <<>> /\ cbytes[1] = RespBulk
    /\ DeclaredLength.ok /\ DeclaredLength.val >= 0

\* C33: decoding $N with N >= 0 gives the N bytes after the header when
\* at least N + 2 bytes follow the header, and an error when fewer follow.
C33_BulkNeedsPayloadAndTerminator ==
    DeclaresBulk =>
        IF Remaining >= DeclaredLength.val + 2
        THEN /\ cres.st = "ok"
             /\ cres.val = NewBulkString(SubSeq(cbytes, BulkHeader.curr + 1,
                                                BulkHeader.curr + DeclaredLength.val))
        ELSE cres.st = "err"

\* C10: Read gives every buffer a value or an error; it never panics.
C10_DecodeNeverFaults ==
    cpc # "start" => cres.st # "panic"

============================================================================
